---- MODULE Spec2Model ----
(***************************************************************************)
(* Never-Yawn air-quality appliance: the two-tier alarm state machine of   *)
(* main.py (sensoren_lesen_verarbeiten_senden, mqtt_befehl_empfangen) and  *)
(* the buzzer state of aktor_steuerung.py.                                 *)
(*                                                                         *)
(* Units: temperature and humidity are kept in tenths (30.0 C = 300), as   *)
(* the sensors round to one decimal; CO2 (ppm), VOC (ppb) and time (s)     *)
(* are integers.  Numeric payload values are in tenths as well, so that    *)
(* int() and float() of main.py are real conversions.                      *)
(*                                                                         *)
(* Init is the state after the module-level initialisation of main.py      *)
(* with both PWM outputs created; peripheral calls return normally.        *)
(***************************************************************************)
EXTENDS Integers, Sequences, FiniteSets, TLC

\* ---------------------------------------------------------------- constants
SENSOR_LESEINTERVALL_SEK == 2
STANDARD_TEMP_SCHWELLE == 300
STANDARD_FEUCHTE_SCHWELLE == 600
STANDARD_CO2_SCHWELLE == 1500
STANDARD_VOC_SCHWELLE == 1000
STANDARD_CO2_KRITISCH_SCHWELLE == 2500
NORMAL_ALARM_SPERRE_SEK == 300
NORMAL_ALARM_AUSLOESE_ZAEHLER == 2
SUMMER_DUTY_AN == 512
SUMMER_DUTY_AUS == 0
TEMP_UNGUELTIG == -999
FEUCHTE_UNGUELTIG == -10

\* ------------------------------------------------------------------- bounds
MaxZeit == 460
MaxZaehler == 3

\* Seconds that may pass between two events (300 = 150 + 150, 301 = 150 + 151)
Schritte == {150, 151}

\* Readings a tick may see: <<temp, feuchte, co2, voc>> (sensorik.py returns a
\* value in range or the sentinel)
Messungen ==
    { <<TEMP_UNGUELTIG, 500, 1000, 100>>,
      <<290, FEUCHTE_UNGUELTIG, 2000, 100>>,
      <<290, 500, 1000, 100>>,
      <<300, 600, 1500, 1000>>,
      <<310, 500, 1000, 100>>,
      <<290, 650, 1000, 100>>,
      <<290, 500, 2000, 100>>,
      <<290, 500, 1000, 1100>>,
      <<290, 500, 3000, 100>> }

VARIABLES
    uhr,                        \* time.time()
    kritischer_alarm_aktiv,
    normal_alarm_sperre_bis,
    normal_alarm_zaehler,
    aktuelle_temp_schwelle,
    aktuelle_feuchte_schwelle,
    aktuelle_co2_schwelle,
    aktuelle_voc_schwelle,
    aktuelle_co2_kritisch_schwelle,
    ist_stummgeschaltet,        \* aktor_steuerung._ist_stummgeschaltet
    summer_ist_dauerhaft_an,    \* aktor_steuerung._summer_ist_dauerhaft_an
    summer_duty,                \* duty of the buzzer PWM
    befehl_pc,                  \* position inside mqtt_befehl_empfangen
    ausgabe,                    \* what the last step did (observation)
    feuer_zeit,                 \* time of the last normal-tier firing, -1 if none
    durchgehend,                \* every valid tick since that firing exceeded, none critical
    letzter_tick,               \* last valid tick: "kein" | "unter" | "ueber"
    wlan_aktiv,                 \* wifi_setup: the station interface is active
    wlan_link,                  \* wifi_setup: wlan.isconnected()
    wlan_ok,                    \* main.py
    mqtt_ok,                    \* main.py
    mqtt_verbunden,             \* mqtt_steuerung.mqtt_verbunden
    mqtt_client,                \* mqtt_steuerung.mqtt_client is not None
    schleife_pc,                \* position of the main program
    beobachtet,                 \* what the link check of this loop pass saw
    wlan_pc,                    \* position inside wifi_setup.wlan_verbinden
    start_zeit,                 \* wlan_verbinden: start of the wait loop, 0 outside it
    wlan_rueckgabe              \* what the last wlan_verbinden returned

alarm_vars == <<kritischer_alarm_aktiv, normal_alarm_sperre_bis, normal_alarm_zaehler>>
schwellen_vars == <<aktuelle_temp_schwelle, aktuelle_feuchte_schwelle, aktuelle_co2_schwelle,
                    aktuelle_voc_schwelle, aktuelle_co2_kritisch_schwelle>>
aktor_vars == <<ist_stummgeschaltet, summer_ist_dauerhaft_an, summer_duty>>
verlauf_vars == <<feuer_zeit, durchgehend, letzter_tick>>
warte_vars == <<wlan_pc, start_zeit, wlan_rueckgabe>>
netz_vars == <<wlan_aktiv, wlan_link, wlan_ok, mqtt_ok, mqtt_verbunden, mqtt_client,
               schleife_pc, beobachtet, warte_vars>>
vars == <<uhr, alarm_vars, schwellen_vars, aktor_vars, befehl_pc, ausgabe, verlauf_vars,
          netz_vars>>

\* ------------------------------------------------------- aktor_steuerung.py
\* The buzzer as a record [stumm, dauerhaft, duty].
Aktor == [stumm |-> ist_stummgeschaltet, dauerhaft |-> summer_ist_dauerhaft_an,
          duty |-> summer_duty]

summer_stoppen(a) ==
    [a EXCEPT !.duty = SUMMER_DUTY_AUS, !.dauerhaft = FALSE]

summer_starten_OhneErzwingen(a, erzwingen) ==
    IF a.stumm THEN summer_stoppen(a)
    ELSE [a EXCEPT !.duty = SUMMER_DUTY_AN, !.dauerhaft = TRUE]

summer_starten_StummOhneStopp(a, erzwingen) ==
    IF a.stumm /\ ~erzwingen THEN a
    ELSE IF a.dauerhaft /\ ~erzwingen THEN a
    ELSE [a EXCEPT !.duty = SUMMER_DUTY_AN, !.dauerhaft = TRUE]

summer_starten(a, erzwingen) ==
    IF a.stumm /\ ~erzwingen THEN summer_stoppen(a)
    ELSE IF a.dauerhaft /\ ~erzwingen THEN a
    ELSE [a EXCEPT !.duty = SUMMER_DUTY_AN, !.dauerhaft = TRUE]

summer_kurz_piepen_TrotzStumm(a, erzwingen) ==
    IF a.dauerhaft THEN FALSE ELSE TRUE

\* TRUE iff the short beep sounds; the duty is back at SUMMER_DUTY_AUS afterwards
summer_kurz_piepen(a, erzwingen) ==
    IF a.stumm /\ ~erzwingen THEN FALSE
    ELSE IF a.dauerhaft THEN FALSE
    ELSE TRUE

\* ------------------------------------------------------------------ main.py
\* The alarm state the tick works on, as a record.
Zustand == [krit |-> kritischer_alarm_aktiv, sperre |-> normal_alarm_sperre_bis,
            zaehler |-> normal_alarm_zaehler, a |-> Aktor]

\* 1. Kritischer CO2-Alarm (entry, re-confirmation, clearing)
KritischeStufe_OhneNormalKopplung(z, ist_co2_kritisch, soll_normal_alarm, aktuelle_zeit) ==
    IF ist_co2_kritisch
    THEN [z |-> [z EXCEPT !.a = summer_starten(z.a, TRUE), !.krit = TRUE],
          erzwungen |-> TRUE, gestoppt |-> FALSE, wecken |-> ~z.krit]
    ELSE IF z.krit
    THEN [z |-> [z EXCEPT !.a = summer_stoppen(z.a), !.krit = FALSE],
          erzwungen |-> FALSE, gestoppt |-> TRUE, wecken |-> FALSE]
    ELSE [z |-> z, erzwungen |-> FALSE, gestoppt |-> FALSE, wecken |-> FALSE]

KritischeStufe_OhneFlag(z, ist_co2_kritisch, soll_normal_alarm, aktuelle_zeit) ==
    IF ist_co2_kritisch
    THEN [z |-> [z EXCEPT !.a = summer_starten(z.a, TRUE)],
          erzwungen |-> TRUE, gestoppt |-> FALSE, wecken |-> FALSE]
    ELSE IF z.krit
    THEN [z |-> [z EXCEPT !.a = summer_stoppen(z.a), !.krit = FALSE,
                          !.sperre = IF soll_normal_alarm
                                     THEN aktuelle_zeit + NORMAL_ALARM_SPERRE_SEK ELSE @,
                          !.zaehler = IF soll_normal_alarm THEN 0 ELSE @],
          erzwungen |-> FALSE, gestoppt |-> TRUE, wecken |-> FALSE]
    ELSE [z |-> z, erzwungen |-> FALSE, gestoppt |-> FALSE, wecken |-> FALSE]

KritischeStufe_OhneSperre(z, ist_co2_kritisch, soll_normal_alarm, aktuelle_zeit) ==
    IF ist_co2_kritisch
    THEN [z |-> IF z.krit
                THEN [z EXCEPT !.a = summer_starten(z.a, TRUE)]
                ELSE [z EXCEPT !.a = summer_starten(z.a, TRUE), !.krit = TRUE,
                               !.zaehler = 0, !.sperre = 0],
          erzwungen |-> TRUE, gestoppt |-> FALSE, wecken |-> ~z.krit]
    ELSE IF z.krit
    THEN [z |-> [z EXCEPT !.a = summer_stoppen(z.a), !.krit = FALSE,
                          !.zaehler = IF soll_normal_alarm THEN 0 ELSE @],
          erzwungen |-> FALSE, gestoppt |-> TRUE, wecken |-> FALSE]
    ELSE [z |-> z, erzwungen |-> FALSE, gestoppt |-> FALSE, wecken |-> FALSE]

KritischeStufe_OhneRuecksetzen(z, ist_co2_kritisch, soll_normal_alarm, aktuelle_zeit) ==
    IF ist_co2_kritisch
    THEN [z |-> [z EXCEPT !.a = summer_starten(z.a, TRUE), !.krit = TRUE],
          erzwungen |-> TRUE, gestoppt |-> FALSE, wecken |-> ~z.krit]
    ELSE IF z.krit
    THEN [z |-> [z EXCEPT !.a = summer_stoppen(z.a), !.krit = FALSE,
                          !.sperre = IF soll_normal_alarm
                                     THEN aktuelle_zeit + NORMAL_ALARM_SPERRE_SEK ELSE @,
                          !.zaehler = IF soll_normal_alarm THEN 0 ELSE @],
          erzwungen |-> FALSE, gestoppt |-> TRUE, wecken |-> FALSE]
    ELSE [z |-> z, erzwungen |-> FALSE, gestoppt |-> FALSE, wecken |-> FALSE]

KritischeStufe(z, ist_co2_kritisch, soll_normal_alarm, aktuelle_zeit) ==
    IF ist_co2_kritisch
    THEN [z |-> IF z.krit
                THEN [z EXCEPT !.a = summer_starten(z.a, TRUE)]
                ELSE [z EXCEPT !.a = summer_starten(z.a, TRUE), !.krit = TRUE,
                               !.zaehler = 0, !.sperre = 0],
          erzwungen |-> TRUE, gestoppt |-> FALSE, wecken |-> ~z.krit]
    ELSE IF z.krit
    THEN [z |-> [z EXCEPT !.a = summer_stoppen(z.a), !.krit = FALSE,
                          !.sperre = IF soll_normal_alarm
                                     THEN aktuelle_zeit + NORMAL_ALARM_SPERRE_SEK ELSE @,
                          !.zaehler = IF soll_normal_alarm THEN 0 ELSE @],
          erzwungen |-> FALSE, gestoppt |-> TRUE, wecken |-> FALSE]
    ELSE [z |-> z, erzwungen |-> FALSE, gestoppt |-> FALSE, wecken |-> FALSE]

KeinNormal(z, ausgewertet) ==
    [z |-> z, ausgewertet |-> ausgewertet, feuer |-> FALSE, piep |-> FALSE, ton |-> FALSE,
     winken |-> FALSE, wecken |-> FALSE, erreicht |-> z.zaehler]

NormalFeuer_OhneReset(z, aktuelle_zeit) ==
    [z |-> [z EXCEPT !.sperre = aktuelle_zeit + NORMAL_ALARM_SPERRE_SEK],
     ausgewertet |-> TRUE, feuer |-> TRUE, piep |-> TRUE,
     ton |-> summer_kurz_piepen(z.a, FALSE), winken |-> TRUE, wecken |-> TRUE,
     erreicht |-> z.zaehler]

NormalFeuer_OhneSperre(z, aktuelle_zeit) ==
    [z |-> [z EXCEPT !.zaehler = 0],
     ausgewertet |-> TRUE, feuer |-> TRUE, piep |-> TRUE,
     ton |-> summer_kurz_piepen(z.a, FALSE), winken |-> TRUE, wecken |-> TRUE,
     erreicht |-> z.zaehler]

\* the firing of the normal alarm, lines 257-262
NormalFeuer(z, aktuelle_zeit) ==
    [z |-> [z EXCEPT !.sperre = aktuelle_zeit + NORMAL_ALARM_SPERRE_SEK, !.zaehler = 0],
     ausgewertet |-> TRUE, feuer |-> TRUE, piep |-> TRUE,
     ton |-> summer_kurz_piepen(z.a, FALSE), winken |-> TRUE, wecken |-> TRUE,
     erreicht |-> z.zaehler]

\* 2. Normaler Alarm
NormaleStufe_OhneEntprellung(z, soll_normal_alarm, aktuelle_zeit) ==
    IF z.krit THEN KeinNormal(z, FALSE)
    ELSE IF soll_normal_alarm
    THEN LET g == [z EXCEPT !.zaehler = @ + 1]
         IN IF aktuelle_zeit > g.sperre
            THEN NormalFeuer(g, aktuelle_zeit)
            ELSE KeinNormal(g, TRUE)
    ELSE KeinNormal([z EXCEPT !.zaehler = 0, !.sperre = 0], TRUE)

NormaleStufe_OhneSperre(z, soll_normal_alarm, aktuelle_zeit) ==
    IF z.krit THEN KeinNormal(z, FALSE)
    ELSE IF soll_normal_alarm
    THEN LET g == [z EXCEPT !.zaehler = @ + 1]
         IN IF g.zaehler >= NORMAL_ALARM_AUSLOESE_ZAEHLER
            THEN NormalFeuer(g, aktuelle_zeit)
            ELSE KeinNormal(g, TRUE)
    ELSE KeinNormal([z EXCEPT !.zaehler = 0, !.sperre = 0], TRUE)

NormaleStufe_Invertiert(z, soll_normal_alarm, aktuelle_zeit) ==
    IF z.krit THEN KeinNormal(z, FALSE)
    ELSE IF ~soll_normal_alarm
    THEN LET g == [z EXCEPT !.zaehler = @ + 1]
         IN IF g.zaehler >= NORMAL_ALARM_AUSLOESE_ZAEHLER /\ aktuelle_zeit > g.sperre
            THEN NormalFeuer(g, aktuelle_zeit)
            ELSE KeinNormal(g, TRUE)
    ELSE KeinNormal([z EXCEPT !.zaehler = 0, !.sperre = 0], TRUE)

NormaleStufe_OhneRuecksetzen(z, soll_normal_alarm, aktuelle_zeit) ==
    IF z.krit THEN KeinNormal(z, FALSE)
    ELSE IF soll_normal_alarm
    THEN LET g == [z EXCEPT !.zaehler = @ + 1]
         IN IF g.zaehler >= NORMAL_ALARM_AUSLOESE_ZAEHLER /\ aktuelle_zeit > g.sperre
            THEN NormalFeuer(g, aktuelle_zeit)
            ELSE KeinNormal(g, TRUE)
    ELSE KeinNormal(z, TRUE)

NormaleStufe(z, soll_normal_alarm, aktuelle_zeit) ==
    IF z.krit THEN KeinNormal(z, FALSE)
    ELSE IF soll_normal_alarm
    THEN LET g == [z EXCEPT !.zaehler = @ + 1]
         IN IF g.zaehler >= NORMAL_ALARM_AUSLOESE_ZAEHLER /\ aktuelle_zeit > g.sperre
            THEN NormalFeuer(g, aktuelle_zeit)
            ELSE KeinNormal(g, TRUE)
    ELSE KeinNormal([z EXCEPT !.zaehler = 0, !.sperre = 0], TRUE)

\* --- Alarm Logik --- : the critical tier, then the normal tier on its result
AlarmLogik_SonstZweig(z, ist_co2_kritisch, soll_normal_alarm, aktuelle_zeit) ==
    LET k == KritischeStufe(z, ist_co2_kritisch, soll_normal_alarm, aktuelle_zeit)
        n == IF z.krit THEN KeinNormal(k.z, FALSE)
             ELSE NormaleStufe(k.z, soll_normal_alarm, aktuelle_zeit)
    IN [z |-> n.z, k |-> k, n |-> n]

AlarmLogik(z, ist_co2_kritisch, soll_normal_alarm, aktuelle_zeit) ==
    LET k == KritischeStufe(z, ist_co2_kritisch, soll_normal_alarm, aktuelle_zeit)
        n == NormaleStufe(k.z, soll_normal_alarm, aktuelle_zeit)
    IN [z |-> n.z, k |-> k, n |-> n]

\* The status fields of the published payload (main.py 269-272); the sensor
\* values themselves are the reading
Zustaende_AlarmZuerst(ist_temp_alarm, ist_feuchte_alarm, ist_co2_alarm, ist_voc_alarm, ist_co2_kritisch) ==
    [Temperatur_Status |-> IF ist_temp_alarm THEN 1 ELSE 0,
     Luftfeuchtigkeit_Status |-> IF ist_feuchte_alarm THEN 1 ELSE 0,
     CO2_Status |-> IF ist_co2_alarm THEN (IF ist_co2_kritisch THEN 2 ELSE 1) ELSE 0,
     VOC_Status |-> IF ist_voc_alarm THEN 1 ELSE 0]

Zustaende(ist_temp_alarm, ist_feuchte_alarm, ist_co2_alarm, ist_voc_alarm, ist_co2_kritisch) ==
    [Temperatur_Status |-> IF ist_temp_alarm THEN 1 ELSE 0,
     Luftfeuchtigkeit_Status |-> IF ist_feuchte_alarm THEN 1 ELSE 0,
     CO2_Status |-> IF ist_co2_kritisch THEN 2 ELSE (IF ist_co2_alarm THEN 1 ELSE 0),
     VOC_Status |-> IF ist_voc_alarm THEN 1 ELSE 0]

\* No payload was published by the step
KeineDaten ==
    [Temperatur_Status |-> -1, Luftfeuchtigkeit_Status |-> -1, CO2_Status |-> -1,
     VOC_Status |-> -1]

\* The observation of a step that is no valid tick
Ruhe(op) ==
    [op |-> op, gueltig |-> FALSE,
     kritisch |-> FALSE, soll |-> FALSE, krit_vorher |-> FALSE, krit_nach_stufe1 |-> FALSE,
     erzwungen |-> FALSE, gestoppt |-> FALSE, wecken |-> FALSE,
     ausgewertet |-> FALSE, feuer |-> FALSE, piep |-> FALSE, ton |-> FALSE,
     winken |-> FALSE, erreicht |-> 0, vorfeuer |-> FALSE, abstand_kurz |-> FALSE,
     unterbrochen |-> FALSE,
     anzeige |-> FALSE, sendeversuch |-> FALSE, gesendet |-> FALSE, war_an |-> FALSE,
     mqtt_versuch |-> FALSE, ausnahme |-> FALSE, daten |-> KeineDaten, abos |-> -1,
     command |-> "fehlt"]

\* The network side once the start-up of main.py (lines 287-296) is through: both
\* connections stand, or the WLAN never came up
\* no call of wlan_verbinden is under way
VorAufruf ==
    /\ wlan_pc = "aussen"
    /\ start_zeit = 0
    /\ wlan_rueckgabe = FALSE

NachStart ==
    /\ VorAufruf
    /\ wlan_aktiv \in BOOLEAN
    /\ wlan_link = wlan_aktiv
    /\ wlan_ok = wlan_aktiv
    /\ mqtt_ok = wlan_aktiv
    /\ mqtt_verbunden = wlan_aktiv
    /\ mqtt_client = wlan_aktiv
    /\ schleife_pc = "main_313"
    /\ beobachtet = "nichts"

Init ==
    /\ uhr = 0
    /\ kritischer_alarm_aktiv = FALSE
    /\ normal_alarm_sperre_bis = 0
    /\ normal_alarm_zaehler = 0
    /\ aktuelle_temp_schwelle = STANDARD_TEMP_SCHWELLE
    /\ aktuelle_feuchte_schwelle = STANDARD_FEUCHTE_SCHWELLE
    /\ aktuelle_co2_schwelle = STANDARD_CO2_SCHWELLE
    /\ aktuelle_voc_schwelle = STANDARD_VOC_SCHWELLE
    /\ aktuelle_co2_kritisch_schwelle = STANDARD_CO2_KRITISCH_SCHWELLE
    /\ ist_stummgeschaltet = FALSE
    /\ summer_ist_dauerhaft_an = FALSE
    /\ summer_duty = SUMMER_DUTY_AUS
    /\ befehl_pc = "bereit"
    /\ ausgabe = Ruhe("init")
    /\ feuer_zeit = -1
    /\ durchgehend = FALSE
    /\ letzter_tick = "kein"
    /\ NachStart

\* ---------------------------------------------------------- mqtt_steuerung.py
\* The client as a record [verbunden, client]; client says whether mqtt_client is set
Mqtt == [verbunden |-> mqtt_verbunden, client |-> mqtt_client]

Getrennt == [verbunden |-> FALSE, client |-> FALSE]

mqtt_ist_verbunden(q) == q.verbunden

\* sendung: what client.publish does, "ok" | "oserror" | "fehler"
mqtt_senden(q, sendung) ==
    IF ~q.verbunden \/ ~q.client
    THEN [q |-> q, versuch |-> FALSE, gesendet |-> FALSE]
    ELSE CASE sendung = "ok" -> [q |-> q, versuch |-> TRUE, gesendet |-> TRUE]
           [] sendung = "oserror" -> [q |-> Getrennt, versuch |-> TRUE, gesendet |-> FALSE]
           [] OTHER -> [q |-> q, versuch |-> TRUE, gesendet |-> FALSE]

mqtt_trennen(q) == IF q.client THEN Getrennt ELSE q

\* ergebnis: what the broker does, "ok" | "verbindung_fehler" | "abo_fehler" (the
\* first subscribe raises) | "abo_schwelle_fehler" (the second subscribe raises)
mqtt_verbinden(q, ergebnis) ==
    IF q.verbunden THEN [q |-> q, ok |-> TRUE]
    ELSE IF ergebnis = "verbindung_fehler" THEN [q |-> Getrennt, ok |-> FALSE]
    ELSE [q |-> [verbunden |-> TRUE, client |-> TRUE], ok |-> TRUE]

\* ergebnis: what client.check_msg does, "ok" | "oserror" | "fehler"
mqtt_nachrichten_pruefen(q, ergebnis) ==
    IF ~q.verbunden \/ ~q.client THEN q
    ELSE IF ergebnis = "oserror" THEN Getrennt
    ELSE q

\* main.py 151-177: connect, then subscribe the control topic, then the threshold
\* topic; ok is the new mqtt_ok, abos the number of subscriptions made (-1 if
\* the connect failed)
mqtt_verbinden_und_abonnieren_EinAbo(q, ergebnis) ==
    LET v == mqtt_verbinden(q, ergebnis)
    IN IF ~v.ok THEN [q |-> v.q, ok |-> FALSE, abos |-> -1]
       ELSE IF ergebnis = "abo_fehler" \/ ~v.q.client
       THEN [q |-> mqtt_trennen(v.q), ok |-> FALSE, abos |-> 0]
       ELSE IF ergebnis = "abo_schwelle_fehler"
       THEN [q |-> v.q, ok |-> TRUE, abos |-> 1]
       ELSE [q |-> v.q, ok |-> TRUE, abos |-> 2]

mqtt_verbinden_und_abonnieren(q, ergebnis) ==
    LET v == mqtt_verbinden(q, ergebnis)
    IN IF ~v.ok THEN [q |-> v.q, ok |-> FALSE, abos |-> -1]
       ELSE IF ergebnis = "abo_fehler" \/ ~v.q.client
       THEN [q |-> mqtt_trennen(v.q), ok |-> FALSE, abos |-> 0]
       ELSE IF ergebnis = "abo_schwelle_fehler"
       THEN [q |-> mqtt_trennen(v.q), ok |-> FALSE, abos |-> 1]
       ELSE [q |-> v.q, ok |-> TRUE, abos |-> 2]

\* ------------------------------------------------------------ wifi_setup.py
\* The station interface as a record [aktiv, link]
Wlan == [aktiv |-> wlan_aktiv, link |-> wlan_link]

wlan_ist_verbunden(w) == w.aktiv /\ w.link

\* ergebnis: "verbunden" | "timeout" | "fehler"; after the timeout the interface is
\* switched off, after an exception of connect() (lines 65-70) it stays active
wlan_verbinden(w, ergebnis) ==
    IF wlan_ist_verbunden(w) THEN [w |-> w, ok |-> TRUE]
    ELSE IF ergebnis = "verbunden" THEN [w |-> [aktiv |-> TRUE, link |-> TRUE], ok |-> TRUE]
    ELSE IF ergebnis = "fehler" THEN [w |-> [aktiv |-> TRUE, link |-> FALSE], ok |-> FALSE]
    ELSE [w |-> [aktiv |-> FALSE, link |-> FALSE], ok |-> FALSE]

\* -------------------------------------------- sensoren_lesen_verarbeiten_senden
Veroeffentlichen_OhnePruefung(q, sendung) ==
    CASE sendung = "ok" -> [q |-> q, versuch |-> TRUE, gesendet |-> TRUE]
      [] sendung = "oserror" -> [q |-> Getrennt, versuch |-> TRUE, gesendet |-> FALSE]
      [] OTHER -> [q |-> q, versuch |-> TRUE, gesendet |-> FALSE]

\* --- Daten via MQTT senden ---, lines 268-279
Veroeffentlichen(q, sendung) ==
    IF mqtt_ist_verbunden(q) THEN mqtt_senden(q, sendung)
    ELSE [q |-> q, versuch |-> FALSE, gesendet |-> FALSE]

Ungueltig_NurTemp(temp, feuchte) == temp = TEMP_UNGUELTIG

\* a sentinel of sensorik.py in the temperature or the humidity
Ungueltig(temp, feuchte) == temp = TEMP_UNGUELTIG \/ feuchte = FEUCHTE_UNGUELTIG

UeberSchwelle_AbGleich(wert, schwelle) == wert >= schwelle

\* the comparison of a reading with its threshold
UeberSchwelle(wert, schwelle) == wert > schwelle

\* time passes
ZeitVergeht ==
    \E d \in Schritte :
        /\ uhr + d <= MaxZeit
        /\ uhr' = uhr + d
        /\ ausgabe' = Ruhe("zeit")
        /\ UNCHANGED <<alarm_vars, schwellen_vars, aktor_vars, befehl_pc, verlauf_vars,
                       netz_vars>>

\* sensoren_lesen_verarbeiten_senden: the periodic timer callback. It runs to its
\* end once started, also between two statements of mqtt_befehl_empfangen.
TickAblauf(messung, sendung) ==
    /\ uhr >= SENSOR_LESEINTERVALL_SEK
    /\ schleife_pc \notin {"main_289", "main_294"}
    /\ UNCHANGED <<uhr, schwellen_vars, befehl_pc, wlan_aktiv, wlan_link, wlan_ok, mqtt_ok,
                   schleife_pc, beobachtet, warte_vars>>
    /\ LET temp == messung[1]
           feuchte == messung[2]
           co2 == messung[3]
           voc == messung[4]
       IN
       IF Ungueltig(temp, feuchte)
       THEN /\ sendung = "ok"
            /\ ausgabe' = Ruhe("tick")
            /\ UNCHANGED <<alarm_vars, aktor_vars, verlauf_vars, mqtt_verbunden, mqtt_client>>
       ELSE LET ist_temp_alarm == UeberSchwelle(temp, aktuelle_temp_schwelle)
                ist_feuchte_alarm == UeberSchwelle(feuchte, aktuelle_feuchte_schwelle)
                ist_co2_alarm == UeberSchwelle(co2, aktuelle_co2_schwelle)
                ist_voc_alarm == UeberSchwelle(voc, aktuelle_voc_schwelle)
                ist_co2_kritisch == UeberSchwelle(co2, aktuelle_co2_kritisch_schwelle)
                soll_normal_alarm == ist_temp_alarm \/ ist_feuchte_alarm
                                     \/ ist_co2_alarm \/ ist_voc_alarm
                r == AlarmLogik(Zustand, ist_co2_kritisch, soll_normal_alarm, uhr)
                s == Veroeffentlichen(Mqtt, sendung)
            IN /\ s.versuch \/ sendung = "ok"
               /\ mqtt_verbunden' = s.q.verbunden
               /\ mqtt_client' = s.q.client
               /\ kritischer_alarm_aktiv' = r.z.krit
               /\ normal_alarm_sperre_bis' = r.z.sperre
               /\ normal_alarm_zaehler' = r.z.zaehler
               /\ ist_stummgeschaltet' = r.z.a.stumm
               /\ summer_ist_dauerhaft_an' = r.z.a.dauerhaft
               /\ summer_duty' = r.z.a.duty
               /\ feuer_zeit' = IF r.n.feuer THEN uhr ELSE feuer_zeit
               /\ durchgehend' = IF r.n.feuer THEN TRUE
                                 ELSE durchgehend /\ soll_normal_alarm /\ ~ist_co2_kritisch
               /\ letzter_tick' = IF soll_normal_alarm THEN "ueber" ELSE "unter"
               /\ ausgabe' =
                    [op |-> "tick", gueltig |-> TRUE,
                     kritisch |-> ist_co2_kritisch, soll |-> soll_normal_alarm,
                     krit_vorher |-> kritischer_alarm_aktiv,
                     krit_nach_stufe1 |-> r.k.z.krit,
                     erzwungen |-> r.k.erzwungen, gestoppt |-> r.k.gestoppt,
                     wecken |-> r.k.wecken \/ r.n.wecken,
                     ausgewertet |-> r.n.ausgewertet, feuer |-> r.n.feuer,
                     piep |-> r.n.piep, ton |-> r.n.ton, winken |-> r.n.winken,
                     erreicht |-> r.n.erreicht,
                     vorfeuer |-> r.n.feuer /\ feuer_zeit >= 0,
                     abstand_kurz |-> r.n.feuer /\ feuer_zeit >= 0
                                      /\ uhr <= feuer_zeit + NORMAL_ALARM_SPERRE_SEK,
                     unterbrochen |-> r.n.feuer /\ feuer_zeit >= 0 /\ ~durchgehend,
                     anzeige |-> TRUE,
                     sendeversuch |-> s.versuch, gesendet |-> s.gesendet,
                     war_an |-> FALSE, mqtt_versuch |-> FALSE, ausnahme |-> FALSE,
                     daten |-> IF s.gesendet
                               THEN Zustaende(ist_temp_alarm, ist_feuchte_alarm, ist_co2_alarm,
                                              ist_voc_alarm, ist_co2_kritisch)
                               ELSE KeineDaten,
                     abos |-> -1, command |-> "fehlt"]

\* the callback, as long as the strike counter stays within MaxZaehler
Tick(messung, sendung) ==
    /\ TickAblauf(messung, sendung)
    /\ normal_alarm_zaehler' <= MaxZaehler

\* ------------------------------------------------- mqtt_befehl_empfangen
MQTT_SCHWELLE_TOPIC == "IoT-NeverYawn/Schwellwerte"
EMPFANGS_TOPIC == "IoT-NeverYawn/Geraetesteuerung"

\* A JSON value of a payload field: absent, a number (in tenths) or something else
Fehlt == [typ |-> "fehlt", wert |-> 0]
Text == [typ |-> "text", wert |-> 0]
Zahl(w) == [typ |-> "zahl", wert |-> w]

\* isinstance(v, (int, float))
IstZahl(v) == v.typ = "zahl"

\* int(x) of a number given in tenths: truncation towards zero
PyInt(w) == IF w >= 0 THEN w \div 10 ELSE -((-w) \div 10)

\* float(x) of a number given in tenths, kept in tenths
PyFloat(w) == w

NeueTempSchwelle(alt, v) == IF IstZahl(v) THEN PyFloat(v.wert) ELSE alt

NeueFeuchteSchwelle_OhneBereich(alt, v) == IF IstZahl(v) THEN PyFloat(v.wert) ELSE alt

NeueFeuchteSchwelle(alt, v) ==
    IF IstZahl(v) /\ 0 <= v.wert /\ v.wert <= 1000 THEN PyFloat(v.wert) ELSE alt

NeueCo2Schwelle(alt, v) == IF IstZahl(v) /\ v.wert > 0 THEN PyInt(v.wert) ELSE alt

NeueVocSchwelle(alt, v) == IF IstZahl(v) /\ v.wert >= 0 THEN PyInt(v.wert) ELSE alt

\* Payloads: form "kaputt" stands for bytes ujson.loads rejects or that are no object
Kaputt ==
    [form |-> "kaputt", command |-> "fehlt", status |-> "fehlt", action |-> "fehlt",
     schwelle_temp |-> Fehlt, schwelle_hum |-> Fehlt, schwelle_CO2 |-> Fehlt,
     schwelle_VOC |-> Fehlt]

Objekt ==
    [form |-> "objekt", command |-> "fehlt", status |-> "fehlt", action |-> "fehlt",
     schwelle_temp |-> Fehlt, schwelle_hum |-> Fehlt, schwelle_CO2 |-> Fehlt,
     schwelle_VOC |-> Fehlt]

SchwellenNutzlasten ==
    { Kaputt,
      [Objekt EXCEPT !.schwelle_temp = Text, !.schwelle_hum = Zahl(1500),
                     !.schwelle_CO2 = Zahl(5), !.schwelle_VOC = Zahl(-10)],
      [Objekt EXCEPT !.schwelle_temp = Zahl(305), !.schwelle_hum = Zahl(1000),
                     !.schwelle_CO2 = Zahl(30000), !.schwelle_VOC = Zahl(10507)],
      [Objekt EXCEPT !.schwelle_temp = Zahl(300), !.schwelle_hum = Zahl(600),
                     !.schwelle_CO2 = Zahl(15000), !.schwelle_VOC = Zahl(10000)],
      [Objekt EXCEPT !.command = "MUTE", !.status = "ON", !.action = "WAVE",
                     !.schwelle_temp = Zahl(305), !.schwelle_hum = Zahl(1000),
                     !.schwelle_CO2 = Zahl(30000), !.schwelle_VOC = Zahl(10507)] }

BefehlsNutzlasten ==
    { Kaputt,
      [Objekt EXCEPT !.command = "MUTE", !.status = "ON"],
      [Objekt EXCEPT !.command = "MUTE", !.status = "OFF"],
      [Objekt EXCEPT !.command = "MUTE"],
      [Objekt EXCEPT !.command = "FLAG", !.action = "WAVE"],
      [Objekt EXCEPT !.command = "FLAG"],
      [Objekt EXCEPT !.command = "BUZZER", !.status = "ON"],
      [Objekt EXCEPT !.command = "BUZZER", !.status = "OFF"],
      [Objekt EXCEPT !.command = "BUZZER"],
      [Objekt EXCEPT !.command = "RESET", !.status = "ON"],
      [Objekt EXCEPT !.command = "MUTE", !.status = "TOGGLE",
                     !.schwelle_temp = Zahl(305), !.schwelle_hum = Zahl(1000),
                     !.schwelle_CO2 = Zahl(30000), !.schwelle_VOC = Zahl(10507)] }

Nachrichten ==
    [topic : {MQTT_SCHWELLE_TOPIC}, daten : SchwellenNutzlasten]
    \cup [topic : {EMPFANGS_TOPIC}, daten : BefehlsNutzlasten]
    \cup [topic : {"IoT-NeverYawn/Sensordaten"}, daten : {Kaputt}]

SetzeAktor(a) ==
    /\ ist_stummgeschaltet' = a.stumm
    /\ summer_ist_dauerhaft_an' = a.dauerhaft
    /\ summer_duty' = a.duty

SchwelleEmpfangen_StandardBeiFehler(m) ==
    /\ befehl_pc = "bereit"
    /\ mqtt_ok /\ mqtt_verbunden /\ mqtt_client
    /\ m.topic = MQTT_SCHWELLE_TOPIC
    /\ IF m.daten.form = "kaputt"
       THEN /\ aktuelle_temp_schwelle' = STANDARD_TEMP_SCHWELLE
            /\ aktuelle_feuchte_schwelle' = STANDARD_FEUCHTE_SCHWELLE
            /\ aktuelle_co2_schwelle' = STANDARD_CO2_SCHWELLE
            /\ aktuelle_voc_schwelle' = STANDARD_VOC_SCHWELLE
            /\ UNCHANGED aktuelle_co2_kritisch_schwelle
       ELSE /\ aktuelle_temp_schwelle' =
                   NeueTempSchwelle(aktuelle_temp_schwelle, m.daten.schwelle_temp)
            /\ aktuelle_feuchte_schwelle' =
                   NeueFeuchteSchwelle(aktuelle_feuchte_schwelle, m.daten.schwelle_hum)
            /\ aktuelle_co2_schwelle' =
                   NeueCo2Schwelle(aktuelle_co2_schwelle, m.daten.schwelle_CO2)
            /\ aktuelle_voc_schwelle' =
                   NeueVocSchwelle(aktuelle_voc_schwelle, m.daten.schwelle_VOC)
            /\ UNCHANGED aktuelle_co2_kritisch_schwelle
    /\ ausgabe' = [Ruhe(IF m.daten.form = "kaputt" THEN "kaputt" ELSE "schwelle")
                      EXCEPT !.command = m.daten.command]
    /\ UNCHANGED <<uhr, alarm_vars, aktor_vars, befehl_pc, verlauf_vars, netz_vars>>

SchwelleEmpfangen_OhneReturn(m) ==
    /\ befehl_pc = "bereit"
    /\ mqtt_ok /\ mqtt_verbunden /\ mqtt_client
    /\ m.topic = MQTT_SCHWELLE_TOPIC
    /\ IF m.daten.form = "kaputt"
       THEN UNCHANGED schwellen_vars
       ELSE /\ aktuelle_temp_schwelle' =
                   NeueTempSchwelle(aktuelle_temp_schwelle, m.daten.schwelle_temp)
            /\ aktuelle_feuchte_schwelle' =
                   NeueFeuchteSchwelle(aktuelle_feuchte_schwelle, m.daten.schwelle_hum)
            /\ aktuelle_co2_schwelle' =
                   NeueCo2Schwelle(aktuelle_co2_schwelle, m.daten.schwelle_CO2)
            /\ aktuelle_voc_schwelle' =
                   NeueVocSchwelle(aktuelle_voc_schwelle, m.daten.schwelle_VOC)
            /\ UNCHANGED aktuelle_co2_kritisch_schwelle
    /\ ausgabe' = [Ruhe(IF m.daten.form = "kaputt" THEN "kaputt" ELSE "schwelle")
                      EXCEPT !.command = m.daten.command]
    /\ SetzeAktor(IF m.daten.command = "MUTE"
                  THEN [Aktor EXCEPT !.stumm = (m.daten.status = "ON")] ELSE Aktor)
    /\ UNCHANGED <<uhr, alarm_vars, befehl_pc, verlauf_vars, netz_vars>>

SchwelleEmpfangen_KritischMitziehen(m) ==
    /\ befehl_pc = "bereit"
    /\ mqtt_ok /\ mqtt_verbunden /\ mqtt_client
    /\ m.topic = MQTT_SCHWELLE_TOPIC
    /\ IF m.daten.form = "kaputt"
       THEN UNCHANGED schwellen_vars
       ELSE /\ aktuelle_temp_schwelle' =
                   NeueTempSchwelle(aktuelle_temp_schwelle, m.daten.schwelle_temp)
            /\ aktuelle_feuchte_schwelle' =
                   NeueFeuchteSchwelle(aktuelle_feuchte_schwelle, m.daten.schwelle_hum)
            /\ aktuelle_co2_schwelle' =
                   NeueCo2Schwelle(aktuelle_co2_schwelle, m.daten.schwelle_CO2)
            /\ aktuelle_voc_schwelle' =
                   NeueVocSchwelle(aktuelle_voc_schwelle, m.daten.schwelle_VOC)
            /\ aktuelle_co2_kritisch_schwelle' =
                   LET neu == NeueCo2Schwelle(aktuelle_co2_schwelle, m.daten.schwelle_CO2)
                   IN IF neu > aktuelle_co2_kritisch_schwelle
                      THEN neu ELSE aktuelle_co2_kritisch_schwelle
    /\ ausgabe' = [Ruhe(IF m.daten.form = "kaputt" THEN "kaputt" ELSE "schwelle")
                      EXCEPT !.command = m.daten.command]
    /\ UNCHANGED <<uhr, alarm_vars, aktor_vars, befehl_pc, verlauf_vars, netz_vars>>

\* Konfigurations-Topic: each field is checked and stored on its own
SchwelleEmpfangen(m) ==
    /\ befehl_pc = "bereit"
    /\ mqtt_ok /\ mqtt_verbunden /\ mqtt_client
    /\ m.topic = MQTT_SCHWELLE_TOPIC
    /\ IF m.daten.form = "kaputt"
       THEN UNCHANGED schwellen_vars
       ELSE /\ aktuelle_temp_schwelle' =
                   NeueTempSchwelle(aktuelle_temp_schwelle, m.daten.schwelle_temp)
            /\ aktuelle_feuchte_schwelle' =
                   NeueFeuchteSchwelle(aktuelle_feuchte_schwelle, m.daten.schwelle_hum)
            /\ aktuelle_co2_schwelle' =
                   NeueCo2Schwelle(aktuelle_co2_schwelle, m.daten.schwelle_CO2)
            /\ aktuelle_voc_schwelle' =
                   NeueVocSchwelle(aktuelle_voc_schwelle, m.daten.schwelle_VOC)
            /\ UNCHANGED aktuelle_co2_kritisch_schwelle
    /\ ausgabe' = [Ruhe(IF m.daten.form = "kaputt" THEN "kaputt" ELSE "schwelle")
                      EXCEPT !.command = m.daten.command]
    /\ UNCHANGED <<uhr, alarm_vars, aktor_vars, befehl_pc, verlauf_vars, netz_vars>>

MuteAktiv_AusserOff(status) == status # "OFF"

\* mute_aktiv = (status == "ON"), line 131
MuteAktiv(status) == status = "ON"

BefehlEmpfangen_FlagOhneAktion(m) ==
    /\ befehl_pc = "bereit"
    /\ mqtt_ok /\ mqtt_verbunden /\ mqtt_client
    /\ m.topic = EMPFANGS_TOPIC
    /\ UNCHANGED <<uhr, alarm_vars, schwellen_vars, verlauf_vars, netz_vars>>
    /\ IF m.daten.form = "kaputt"
       THEN /\ ausgabe' = Ruhe("kaputt")
            /\ UNCHANGED <<aktor_vars, befehl_pc>>
       ELSE LET befehl == m.daten.command
                status == m.daten.status
            IN CASE befehl = "MUTE" ->
                      /\ SetzeAktor([Aktor EXCEPT !.stumm = (status = "ON")])
                      /\ befehl_pc' = "stumm_220"
                      /\ ausgabe' = Ruhe("befehl")
                 [] befehl = "FLAG" ->
                      /\ ausgabe' = [Ruhe("befehl") EXCEPT !.winken = TRUE]
                      /\ UNCHANGED <<aktor_vars, befehl_pc>>
                 [] befehl = "BUZZER" /\ status = "ON" ->
                      /\ SetzeAktor(summer_starten(Aktor, FALSE))
                      /\ ausgabe' = [Ruhe("befehl") EXCEPT !.war_an = summer_ist_dauerhaft_an]
                      /\ UNCHANGED befehl_pc
                 [] befehl = "BUZZER" /\ status = "OFF" ->
                      /\ SetzeAktor(summer_stoppen(Aktor))
                      /\ befehl_pc' = "main_145"
                      /\ ausgabe' = [Ruhe("befehl") EXCEPT !.gestoppt = TRUE]
                 [] OTHER ->
                      /\ ausgabe' = Ruhe("befehl")
                      /\ UNCHANGED <<aktor_vars, befehl_pc>>

\* Steuerungs-Topic, up to the first statement that changes state
BefehlEmpfangen(m) ==
    /\ befehl_pc = "bereit"
    /\ mqtt_ok /\ mqtt_verbunden /\ mqtt_client
    /\ m.topic = EMPFANGS_TOPIC
    /\ UNCHANGED <<uhr, alarm_vars, schwellen_vars, verlauf_vars, netz_vars>>
    /\ IF m.daten.form = "kaputt"
       THEN /\ ausgabe' = Ruhe("kaputt")
            /\ UNCHANGED <<aktor_vars, befehl_pc>>
       ELSE LET befehl == m.daten.command
                status == m.daten.status
                aktion == m.daten.action
            IN CASE befehl = "MUTE" ->
                      \* stumm_schalten, line 217
                      /\ SetzeAktor([Aktor EXCEPT !.stumm = MuteAktiv(status)])
                      /\ befehl_pc' = "stumm_220"
                      /\ ausgabe' = Ruhe("befehl")
                 [] befehl = "FLAG" /\ aktion = "WAVE" ->
                      /\ ausgabe' = [Ruhe("befehl") EXCEPT !.winken = TRUE]
                      /\ UNCHANGED <<aktor_vars, befehl_pc>>
                 [] befehl = "BUZZER" /\ status = "ON" ->
                      /\ SetzeAktor(summer_starten(Aktor, FALSE))
                      /\ ausgabe' = [Ruhe("befehl") EXCEPT !.war_an = summer_ist_dauerhaft_an]
                      /\ UNCHANGED befehl_pc
                 [] befehl = "BUZZER" /\ status = "OFF" ->
                      /\ SetzeAktor(summer_stoppen(Aktor))
                      /\ befehl_pc' = "main_145"
                      /\ ausgabe' = [Ruhe("befehl") EXCEPT !.gestoppt = TRUE]
                 [] OTHER ->
                      /\ ausgabe' = Ruhe("befehl")
                      /\ UNCHANGED <<aktor_vars, befehl_pc>>

StummStoppen_OhneStopp ==
    /\ befehl_pc = "stumm_220"
    /\ befehl_pc' = IF ist_stummgeschaltet THEN "main_134" ELSE "bereit"
    /\ ausgabe' = [Ruhe("befehl") EXCEPT !.war_an = summer_ist_dauerhaft_an]
    /\ UNCHANGED <<uhr, alarm_vars, schwellen_vars, aktor_vars, verlauf_vars, netz_vars>>

\* stumm_schalten, lines 220-221, then back in main.py line 133
StummStoppen ==
    /\ befehl_pc = "stumm_220"
    /\ SetzeAktor(IF ist_stummgeschaltet THEN summer_stoppen(Aktor) ELSE Aktor)
    /\ befehl_pc' = IF ist_stummgeschaltet THEN "main_134" ELSE "bereit"
    /\ ausgabe' = [Ruhe("befehl") EXCEPT !.gestoppt = ist_stummgeschaltet,
                                         !.war_an = summer_ist_dauerhaft_an]
    /\ UNCHANGED <<uhr, alarm_vars, schwellen_vars, verlauf_vars, netz_vars>>

FlagLoeschen_OhneLoeschen ==
    /\ befehl_pc \in {"main_134", "main_145"}
    /\ befehl_pc' = "bereit"
    /\ ausgabe' = [Ruhe("befehl") EXCEPT !.krit_vorher = kritischer_alarm_aktiv]
    /\ UNCHANGED <<uhr, alarm_vars, schwellen_vars, aktor_vars, verlauf_vars, netz_vars>>

\* kritischer_alarm_aktiv = False, line 134 (MUTE ON) or line 145 (BUZZER OFF)
FlagLoeschen ==
    /\ befehl_pc \in {"main_134", "main_145"}
    /\ kritischer_alarm_aktiv' = FALSE
    /\ befehl_pc' = "bereit"
    /\ ausgabe' = [Ruhe("befehl") EXCEPT !.krit_vorher = kritischer_alarm_aktiv]
    /\ UNCHANGED <<uhr, normal_alarm_sperre_bis, normal_alarm_zaehler, schwellen_vars,
                   aktor_vars, verlauf_vars, netz_vars>>

\* A message on a topic the handler does not know
AndereNachricht(m) ==
    /\ befehl_pc = "bereit"
    /\ mqtt_ok /\ mqtt_verbunden /\ mqtt_client
    /\ m.topic \notin {MQTT_SCHWELLE_TOPIC, EMPFANGS_TOPIC}
    /\ ausgabe' = Ruhe("andere")
    /\ UNCHANGED <<uhr, alarm_vars, schwellen_vars, aktor_vars, befehl_pc, verlauf_vars,
                   netz_vars>>

Next ==
    \/ ZeitVergeht
    \/ \E messung \in Messungen : Tick(messung, "ok")
    \/ \E m \in Nachrichten : SchwelleEmpfangen(m)
    \/ \E m \in Nachrichten : BefehlEmpfangen(m)
    \/ StummStoppen
    \/ FlagLoeschen
    \/ \E m \in Nachrichten : AndereNachricht(m)

Spec == Init /\ [][Next]_vars

\* -------------------------------------------- main.py: start-up and main loop
WlanErgebnisse == {"verbunden", "timeout", "fehler"}
MqttErgebnisse == {"ok", "verbindung_fehler", "abo_fehler", "abo_schwelle_fehler"}
Sendungen == {"ok", "oserror", "fehler"}

\* the readings the ticks of SpecNetz see: a sentinel, a quiet one, an exceeding one,
\* a critical one
NetzMessungen ==
    { <<TEMP_UNGUELTIG, 500, 1000, 100>>, <<290, 500, 1000, 100>>, <<310, 500, 1000, 100>>,
      <<290, 500, 3000, 100>> }

SetzeWlan(w) == wlan_aktiv' = w.aktiv /\ wlan_link' = w.link

SetzeMqtt(q) == mqtt_verbunden' = q.verbunden /\ mqtt_client' = q.client

\* the part of the state the main program never writes
Hauptprogramm == UNCHANGED <<uhr, alarm_vars, schwellen_vars, aktor_vars, befehl_pc, verlauf_vars, warte_vars>>

\* the device before the first statement of the Programmstart
InitNetz ==
    /\ uhr = 0
    /\ kritischer_alarm_aktiv = FALSE
    /\ normal_alarm_sperre_bis = 0
    /\ normal_alarm_zaehler = 0
    /\ aktuelle_temp_schwelle = STANDARD_TEMP_SCHWELLE
    /\ aktuelle_feuchte_schwelle = STANDARD_FEUCHTE_SCHWELLE
    /\ aktuelle_co2_schwelle = STANDARD_CO2_SCHWELLE
    /\ aktuelle_voc_schwelle = STANDARD_VOC_SCHWELLE
    /\ aktuelle_co2_kritisch_schwelle = STANDARD_CO2_KRITISCH_SCHWELLE
    /\ ist_stummgeschaltet = FALSE
    /\ summer_ist_dauerhaft_an = FALSE
    /\ summer_duty = SUMMER_DUTY_AUS
    /\ befehl_pc = "bereit"
    /\ ausgabe = Ruhe("init")
    /\ feuer_zeit = -1
    /\ durchgehend = FALSE
    /\ letzter_tick = "kein"
    /\ wlan_aktiv \in BOOLEAN
    /\ wlan_link = wlan_aktiv
    /\ wlan_ok = FALSE
    /\ mqtt_ok = FALSE
    /\ mqtt_verbunden = FALSE
    /\ mqtt_client = FALSE
    /\ schleife_pc = "main_289"
    /\ beobachtet = "nichts"
    /\ VorAufruf

\* wlan_ok = wifi_setup.wlan_verbinden(), line 289
WlanStart ==
    /\ schleife_pc = "main_289"
    /\ \E ergebnis \in WlanErgebnisse :
         LET r == wlan_verbinden(Wlan, ergebnis)
         IN /\ wlan_ist_verbunden(Wlan) => ergebnis = "verbunden"
            /\ SetzeWlan(r.w)
            /\ wlan_ok' = r.ok
            /\ schleife_pc' = IF r.ok THEN "main_294" ELSE "main_313"
    /\ mqtt_ok' = FALSE
    /\ ausgabe' = Ruhe("netz")
    /\ Hauptprogramm
    /\ UNCHANGED <<mqtt_verbunden, mqtt_client, beobachtet>>

\* mqtt_ok = mqtt_verbinden_und_abonnieren(), line 294
MqttStart ==
    /\ schleife_pc = "main_294"
    /\ \E ergebnis \in MqttErgebnisse :
         LET r == mqtt_verbinden_und_abonnieren(Mqtt, ergebnis)
         IN /\ SetzeMqtt(r.q)
            /\ mqtt_ok' = r.ok
            /\ ausgabe' = [Ruhe("netz") EXCEPT !.mqtt_versuch = TRUE, !.abos = r.abos]
    /\ schleife_pc' = "main_313"
    /\ Hauptprogramm
    /\ UNCHANGED <<wlan_aktiv, wlan_link, wlan_ok, beobachtet>>

LinkPruefen_OhneTrennen ==
    /\ schleife_pc = "main_313"
    /\ LET oben == wlan_ist_verbunden(Wlan)
       IN /\ beobachtet' = IF oben THEN "oben" ELSE "unten"
          /\ mqtt_ok' = (oben /\ mqtt_ok)
          /\ schleife_pc' = IF ~oben THEN "main_320"
                            ELSE IF wlan_ok /\ ~mqtt_ok THEN "main_326"
                            ELSE "main_329"
    /\ ausgabe' = Ruhe("netz")
    /\ Hauptprogramm
    /\ UNCHANGED <<wlan_aktiv, wlan_link, wlan_ok, mqtt_verbunden, mqtt_client>>

LinkPruefen_OhneElif ==
    /\ schleife_pc = "main_313"
    /\ LET oben == wlan_ist_verbunden(Wlan)
       IN /\ beobachtet' = IF oben THEN "oben" ELSE "unten"
          /\ SetzeMqtt(IF ~oben /\ mqtt_ok THEN mqtt_trennen(Mqtt) ELSE Mqtt)
          /\ mqtt_ok' = (oben /\ mqtt_ok)
          /\ schleife_pc' = IF wlan_ok /\ ~mqtt_ok' THEN "main_326"
                            ELSE IF ~oben THEN "main_320"
                            ELSE "main_329"
    /\ ausgabe' = Ruhe("netz")
    /\ Hauptprogramm
    /\ UNCHANGED <<wlan_aktiv, wlan_link, wlan_ok>>

\* the head of a loop pass, lines 313-318 and 322-324, up to the sleep
LinkPruefen ==
    /\ schleife_pc = "main_313"
    /\ LET oben == wlan_ist_verbunden(Wlan)
       IN /\ beobachtet' = IF oben THEN "oben" ELSE "unten"
          /\ SetzeMqtt(IF ~oben /\ mqtt_ok THEN mqtt_trennen(Mqtt) ELSE Mqtt)
          /\ mqtt_ok' = (oben /\ mqtt_ok)
          /\ schleife_pc' = IF ~oben THEN "main_320"
                            ELSE IF wlan_ok /\ ~mqtt_ok THEN "main_326"
                            ELSE "main_329"
    /\ ausgabe' = Ruhe("netz")
    /\ Hauptprogramm
    /\ UNCHANGED <<wlan_aktiv, wlan_link, wlan_ok>>

\* after the sleep: wlan_ok = wifi_setup.wlan_verbinden(), lines 320-321
WlanNeu ==
    /\ schleife_pc = "main_320"
    /\ \E ergebnis \in WlanErgebnisse :
         LET r == wlan_verbinden(Wlan, ergebnis)
         IN /\ wlan_ist_verbunden(Wlan) => ergebnis = "verbunden"
            /\ SetzeWlan(r.w)
            /\ wlan_ok' = r.ok
            /\ mqtt_ok' = IF r.ok THEN FALSE ELSE mqtt_ok
    /\ schleife_pc' = "main_329"
    /\ ausgabe' = Ruhe("netz")
    /\ Hauptprogramm
    /\ UNCHANGED <<mqtt_verbunden, mqtt_client, beobachtet>>

\* after the sleep: mqtt_ok = mqtt_verbinden_und_abonnieren(), line 326
MqttNeu ==
    /\ schleife_pc = "main_326"
    /\ \E ergebnis \in MqttErgebnisse :
         LET r == mqtt_verbinden_und_abonnieren(Mqtt, ergebnis)
         IN /\ SetzeMqtt(r.q)
            /\ mqtt_ok' = r.ok
            /\ ausgabe' = [Ruhe("netz") EXCEPT !.mqtt_versuch = TRUE, !.abos = r.abos]
    /\ schleife_pc' = "main_329"
    /\ Hauptprogramm
    /\ UNCHANGED <<wlan_aktiv, wlan_link, wlan_ok, beobachtet>>

\* lines 329-338 and the pause of line 341; no message is waiting
NachrichtenPruefen ==
    /\ schleife_pc = "main_329"
    /\ IF mqtt_ok
       THEN \E ergebnis \in Sendungen :
              LET q == mqtt_nachrichten_pruefen(Mqtt, ergebnis)
              IN /\ (~Mqtt.verbunden \/ ~Mqtt.client) => ergebnis = "ok"
                 /\ SetzeMqtt(q)
                 /\ mqtt_ok' = mqtt_ist_verbunden(q)
                 /\ ausgabe' = [Ruhe("abruf") EXCEPT !.ausnahme = (ergebnis # "ok")]
       ELSE /\ ausgabe' = Ruhe("netz")
            /\ UNCHANGED <<mqtt_ok, mqtt_verbunden, mqtt_client>>
    /\ schleife_pc' = "main_313"
    /\ beobachtet' = "nichts"
    /\ Hauptprogramm
    /\ UNCHANGED <<wlan_aktiv, wlan_link, wlan_ok>>

\* the access point goes away
LinkFaellt ==
    /\ wlan_link
    /\ wlan_link' = FALSE
    /\ ausgabe' = Ruhe("funk")
    /\ Hauptprogramm
    /\ UNCHANGED <<wlan_aktiv, wlan_ok, mqtt_ok, mqtt_verbunden, mqtt_client, schleife_pc,
                   beobachtet>>

\* the active interface finds the access point again
LinkKommt ==
    /\ wlan_aktiv /\ ~wlan_link
    /\ wlan_link' = TRUE
    /\ ausgabe' = Ruhe("funk")
    /\ Hauptprogramm
    /\ UNCHANGED <<wlan_aktiv, wlan_ok, mqtt_ok, mqtt_verbunden, mqtt_client, schleife_pc,
                   beobachtet>>

NextNetz ==
    \/ WlanStart
    \/ MqttStart
    \/ LinkPruefen
    \/ WlanNeu
    \/ MqttNeu
    \/ NachrichtenPruefen
    \/ LinkFaellt
    \/ LinkKommt
    \/ ZeitVergeht
    \/ \E messung \in NetzMessungen, sendung \in Sendungen : Tick(messung, sendung)

SpecNetz == InitNetz /\ [][NextNetz]_vars

\* ------------------------------------------------ exceptions of peripherals
\* wlan_ist_verbunden() of line 313, or wlan_verbinden() of line 320 before it has
\* touched the interface, raises: neither is inside a try of the loop body, so the
\* except of line 343 takes it and the while loop is left
SchleifeFehler ==
    /\ schleife_pc \in {"main_313", "main_320"}
    /\ schleife_pc' = "beendet"
    /\ ausgabe' = [Ruhe("netz") EXCEPT !.ausnahme = TRUE]
    /\ Hauptprogramm
    /\ UNCHANGED <<wlan_aktiv, wlan_link, wlan_ok, mqtt_ok, mqtt_verbunden, mqtt_client,
                   beobachtet>>

\* The tick on which bildschirm.backlight_einschalten() raises (line 240 or 260):
\* the statements before the call have run, the rest of the tick is skipped by the
\* except of line 281
TickWeckFehler(messung) ==
    /\ uhr >= SENSOR_LESEINTERVALL_SEK
    /\ schleife_pc \notin {"main_289", "main_294"}
    /\ ~Ungueltig(messung[1], messung[2])
    /\ UNCHANGED <<uhr, schwellen_vars, befehl_pc, netz_vars>>
    /\ LET co2 == messung[3]
           ist_co2_kritisch == UeberSchwelle(co2, aktuelle_co2_kritisch_schwelle)
           soll_normal_alarm == \/ UeberSchwelle(messung[1], aktuelle_temp_schwelle)
                                \/ UeberSchwelle(messung[2], aktuelle_feuchte_schwelle)
                                \/ UeberSchwelle(co2, aktuelle_co2_schwelle)
                                \/ UeberSchwelle(messung[4], aktuelle_voc_schwelle)
           r == AlarmLogik(Zustand, ist_co2_kritisch, soll_normal_alarm, uhr)
           z == IF r.k.wecken THEN r.k.z
                ELSE [r.k.z EXCEPT !.zaehler = r.n.erreicht]
       IN /\ r.k.wecken \/ r.n.wecken
          /\ z.zaehler <= MaxZaehler
          /\ kritischer_alarm_aktiv' = z.krit
          /\ normal_alarm_sperre_bis' = z.sperre
          /\ normal_alarm_zaehler' = z.zaehler
          /\ SetzeAktor(z.a)
          /\ feuer_zeit' = IF r.n.feuer THEN uhr ELSE feuer_zeit
          /\ durchgehend' = IF r.n.feuer THEN TRUE
                            ELSE durchgehend /\ soll_normal_alarm /\ ~ist_co2_kritisch
          /\ letzter_tick' = IF soll_normal_alarm THEN "ueber" ELSE "unter"
          /\ ausgabe' = [Ruhe("tick") EXCEPT
                           !.gueltig = TRUE, !.kritisch = ist_co2_kritisch,
                           !.soll = soll_normal_alarm,
                           !.krit_vorher = kritischer_alarm_aktiv,
                           !.krit_nach_stufe1 = r.k.z.krit,
                           !.erzwungen = r.k.erzwungen,
                           !.ausgewertet = r.n.ausgewertet, !.feuer = r.n.feuer,
                           !.piep = r.n.piep, !.ton = r.n.ton, !.winken = r.n.winken,
                           !.erreicht = r.n.erreicht,
                           !.anzeige = TRUE, !.ausnahme = TRUE]

NextFehler ==
    \/ NextNetz
    \/ SchleifeFehler
    \/ \E messung \in NetzMessungen : TickWeckFehler(messung)

SpecFehler == InitNetz /\ [][NextFehler]_vars

\* the steps of the main program; exactly one of them is enabled at any time
Schleife ==
    \/ WlanStart
    \/ MqttStart
    \/ LinkPruefen
    \/ WlanNeu
    \/ MqttNeu
    \/ NachrichtenPruefen

\* The main program never stops: every sleep ends and every call returns.
SpecNetzFair == InitNetz /\ [][NextNetz]_vars /\ WF_vars(Schleife)

\* ------------------------------------- wifi_setup.wlan_verbinden, step by step
WLAN_VERBINDUNGS_TIMEOUT_SEK == 20

\* what time.sleep(1) of the wait loop takes, in seconds of time.time(): the
\* timer callback may run while the main program sleeps
Schlafdauer == {1, 2}

\* connect() of line 66: it returns or it raises
VerbindenErgebnisse == {"ok", "fehler"}

TimeoutUeberschritten_AbGleich(jetzt, start) == jetzt - start >= WLAN_VERBINDUNGS_TIMEOUT_SEK

\* time.time() - start_zeit > WLAN_VERBINDUNGS_TIMEOUT_SEK, line 76
TimeoutUeberschritten(jetzt, start) == jetzt - start > WLAN_VERBINDUNGS_TIMEOUT_SEK

\* the part of the state wlan_verbinden never writes
WlanAufrufRest ==
    UNCHANGED <<alarm_vars, schwellen_vars, aktor_vars, befehl_pc, verlauf_vars, wlan_ok,
                mqtt_ok, mqtt_verbunden, mqtt_client, schleife_pc, beobachtet>>

\* the caller enters wlan_verbinden; a call started this late would not be over
\* by MaxZeit
WlanAufruf ==
    /\ wlan_pc = "aussen"
    /\ uhr + WLAN_VERBINDUNGS_TIMEOUT_SEK + 4 <= MaxZeit
    /\ wlan_pc' = "wifi_29"
    /\ ausgabe' = Ruhe("wlan")
    /\ WlanAufrufRest
    /\ UNCHANGED <<uhr, wlan_aktiv, wlan_link, start_zeit, wlan_rueckgabe>>

\* lines 39-73: the early return, the activation with its pause, connect() and
\* the start of the wait loop
WlanEintritt ==
    /\ wlan_pc = "wifi_29"
    /\ ausgabe' = Ruhe("wlan")
    /\ WlanAufrufRest
    /\ IF wlan_ist_verbunden(Wlan)
       THEN /\ wlan_pc' = "aussen"
            /\ wlan_rueckgabe' = TRUE
            /\ UNCHANGED <<uhr, wlan_aktiv, wlan_link, start_zeit>>
       ELSE \E d \in Schlafdauer, ergebnis \in VerbindenErgebnisse :
              /\ wlan_aktiv' = TRUE
              /\ uhr' = IF wlan_aktiv THEN uhr ELSE uhr + d
              /\ wlan_aktiv => d = 1
              /\ UNCHANGED wlan_link
              /\ IF ergebnis = "fehler"
                 THEN /\ wlan_pc' = "aussen"
                      /\ wlan_rueckgabe' = FALSE
                      /\ UNCHANGED start_zeit
                 ELSE /\ wlan_pc' = "wifi_74"
                      /\ start_zeit' = uhr'
                      /\ UNCHANGED wlan_rueckgabe

\* lines 74-97: one pass of the wait loop, or the return after it; the local
\* start_zeit ends with the call
WlanWarten ==
    /\ wlan_pc = "wifi_74"
    /\ ausgabe' = Ruhe("wlan")
    /\ WlanAufrufRest
    /\ IF wlan_link
       THEN /\ wlan_pc' = "aussen"
            /\ wlan_rueckgabe' = TRUE
            /\ start_zeit' = 0
            /\ UNCHANGED <<uhr, wlan_aktiv, wlan_link>>
       ELSE IF TimeoutUeberschritten(uhr, start_zeit)
       THEN /\ SetzeWlan([aktiv |-> FALSE, link |-> FALSE])
            /\ wlan_pc' = "aussen"
            /\ wlan_rueckgabe' = FALSE
            /\ start_zeit' = 0
            /\ UNCHANGED uhr
       ELSE /\ \E d \in Schlafdauer : uhr' = uhr + d
            /\ UNCHANGED <<wlan_aktiv, wlan_link, wlan_pc, wlan_rueckgabe, start_zeit>>

NextWlan ==
    \/ WlanAufruf
    \/ WlanEintritt
    \/ WlanWarten
    \/ LinkFaellt
    \/ LinkKommt

SpecWlan == InitNetz /\ [][NextWlan]_vars

\* The statements of wlan_verbinden run one after the other: every sleep ends
\* and every driver call returns or raises.
SpecWlanFair ==
    InitNetz /\ [][NextWlan]_vars /\ WF_vars(WlanEintritt) /\ WF_vars(WlanWarten)

\* ------------------------------------------------- sustained exceedance
\* The periodic timer of main.py 298-306 alone: one callback per period, every
\* reading valid, above a normal threshold and not critical.
MaxDauer == 620

DauerMessungen ==
    { messung \in Messungen :
        /\ ~Ungueltig(messung[1], messung[2])
        /\ ~UeberSchwelle(messung[3], aktuelle_co2_kritisch_schwelle)
        /\ \/ UeberSchwelle(messung[1], aktuelle_temp_schwelle)
           \/ UeberSchwelle(messung[2], aktuelle_feuchte_schwelle)
           \/ UeberSchwelle(messung[3], aktuelle_co2_schwelle)
           \/ UeberSchwelle(messung[4], aktuelle_voc_schwelle) }

\* the period up to the next callback passes (period = SENSOR_LESEINTERVALL_SEK
\* * 1000 ms, line 300)
DauerZeit ==
    /\ ausgabe.op # "zeit"
    /\ uhr + SENSOR_LESEINTERVALL_SEK <= MaxDauer
    /\ uhr' = uhr + SENSOR_LESEINTERVALL_SEK
    /\ ausgabe' = Ruhe("zeit")
    /\ UNCHANGED <<alarm_vars, schwellen_vars, aktor_vars, befehl_pc, verlauf_vars,
                   netz_vars>>

\* the callback of the period
DauerTick ==
    /\ ausgabe.op = "zeit"
    /\ \E messung \in DauerMessungen : TickAblauf(messung, "ok")

NextDauer ==
    \/ DauerZeit
    \/ DauerTick

\* Time advances and the timer calls back once per period.
SpecDauer == Init /\ [][NextDauer]_vars /\ WF_vars(DauerZeit) /\ WF_vars(DauerTick)

\* ------------------------------------------------------------------ claims
GueltigerTick == ausgabe.op = "tick" /\ ausgabe.gueltig

\* the tick on which the critical alarm clears
Entwarnung == GueltigerTick /\ ausgabe.krit_vorher /\ ~ausgabe.kritisch

Standardschwellen ==
    /\ aktuelle_temp_schwelle = STANDARD_TEMP_SCHWELLE
    /\ aktuelle_feuchte_schwelle = STANDARD_FEUCHTE_SCHWELLE
    /\ aktuelle_co2_schwelle = STANDARD_CO2_SCHWELLE
    /\ aktuelle_voc_schwelle = STANDARD_VOC_SCHWELLE
    /\ aktuelle_co2_kritisch_schwelle = STANDARD_CO2_KRITISCH_SCHWELLE

\* C1: a normal-tier alarm fires on a valid tick only if the strike counter has
\* reached 2 on that tick; a single exceeding reading that follows a non-exceeding
\* valid reading, or start-up, never fires.
C1_Entprellung ==
    [][ (ausgabe'.op = "tick" /\ ausgabe'.gueltig /\ ausgabe'.feuer)
        => (ausgabe'.erreicht >= 2 /\ letzter_tick = "ueber") ]_vars

C1_Zeuge == GueltigerTick /\ ausgabe.feuer /\ ausgabe.erreicht = 2

\* C2: from the initial alarm state (counter 0, cooldown 0, critical inactive) with
\* the default thresholds, the first exceeding non-critical valid tick does not fire
\* and leaves the counter at 1; the second fires: pulse, wave and display wake are
\* issued, the cooldown becomes now + NORMAL_ALARM_SPERRE_SEK and the counter is 0.
C2_ZweiSchlaege ==
    [][ ( /\ Standardschwellen
          /\ ~kritischer_alarm_aktiv
          /\ normal_alarm_sperre_bis = 0
          /\ ausgabe'.op = "tick" /\ ausgabe'.gueltig
          /\ ausgabe'.soll /\ ~ausgabe'.kritisch )
        => /\ normal_alarm_zaehler = 0
              => ( /\ ~ausgabe'.feuer /\ ~ausgabe'.piep /\ ~ausgabe'.winken
                   /\ normal_alarm_zaehler' = 1
                   /\ normal_alarm_sperre_bis' = 0 )
           /\ normal_alarm_zaehler = 1
              => ( /\ ausgabe'.feuer /\ ausgabe'.piep /\ ausgabe'.winken /\ ausgabe'.wecken
                   /\ ausgabe'.ton = (~ist_stummgeschaltet /\ ~summer_ist_dauerhaft_an)
                   /\ normal_alarm_sperre_bis' = uhr + NORMAL_ALARM_SPERRE_SEK
                   /\ normal_alarm_zaehler' = 0 ) ]_vars

C2_Zeuge ==
    /\ GueltigerTick /\ ausgabe.feuer /\ ~ausgabe.vorfeuer /\ ausgabe.ton
    /\ Standardschwellen
    /\ normal_alarm_sperre_bis = uhr + NORMAL_ALARM_SPERRE_SEK
    /\ normal_alarm_zaehler = 0

\* C3: after a normal-tier firing at time t, while every following valid tick has
\* a normal threshold exceeded and CO2 not critical, no tick with
\* now <= t + NORMAL_ALARM_SPERRE_SEK fires.
C3_Sperre ==
    [][ ( /\ feuer_zeit >= 0 /\ durchgehend
          /\ ausgabe'.op = "tick" /\ ausgabe'.gueltig
          /\ ausgabe'.soll /\ ~ausgabe'.kritisch
          /\ uhr <= feuer_zeit + NORMAL_ALARM_SPERRE_SEK )
        => ~ausgabe'.feuer /\ ~ausgabe'.piep /\ ~ausgabe'.winken ]_vars

C3_Zeuge ==
    /\ GueltigerTick /\ ausgabe.soll /\ ~ausgabe.feuer
    /\ feuer_zeit >= 0 /\ durchgehend
    /\ normal_alarm_zaehler >= NORMAL_ALARM_AUSLOESE_ZAEHLER
    /\ uhr = feuer_zeit + NORMAL_ALARM_SPERRE_SEK

\* C4 as stated: any two normal-tier firings are more than NORMAL_ALARM_SPERRE_SEK
\* seconds apart, whatever readings and commands lie between them.
C4_Original == ausgabe.feuer => ~ausgabe.abstand_kurz

\* C4 amended: two normal-tier firings are more than NORMAL_ALARM_SPERRE_SEK seconds
\* apart unless a valid tick between them found no normal threshold exceeded or CO2
\* critical (either clears the cooldown).
C4_Abstand == (ausgabe.feuer /\ ausgabe.abstand_kurz) => ausgabe.unterbrochen

C4_Zeuge ==
    /\ GueltigerTick /\ ausgabe.vorfeuer /\ ~ausgabe.unterbrochen
    /\ feuer_zeit = uhr

\* C5: every valid tick with CO2 above the critical threshold ends with the
\* continuous buzzer on, muted or not, whatever command came before.
C5_KritischErzwungen ==
    (GueltigerTick /\ ausgabe.kritisch)
        => /\ ausgabe.erzwungen
           /\ summer_ist_dauerhaft_an
           /\ summer_duty = SUMMER_DUTY_AN

C5_Zeuge ==
    /\ GueltigerTick /\ ausgabe.kritisch /\ ~ausgabe.krit_vorher
    /\ ist_stummgeschaltet /\ summer_ist_dauerhaft_an

\* C6: no tick issues both the forced buzzer and a normal-tier pulse or wave, and
\* the normal tier (strike increment, firing, cooldown re-arm) is evaluated only on
\* ticks where kritischer_alarm_aktiv is false after the critical-tier step.
C6_KritischVorNormal ==
    [][ (ausgabe'.op = "tick" /\ ausgabe'.gueltig)
        => /\ ~(ausgabe'.erzwungen /\ (ausgabe'.piep \/ ausgabe'.winken))
           /\ ausgabe'.ausgewertet => ~ausgabe'.krit_nach_stufe1
           /\ ausgabe'.krit_nach_stufe1
                => /\ ~ausgabe'.ausgewertet /\ ~ausgabe'.feuer
                   /\ kritischer_alarm_aktiv'
                   /\ normal_alarm_zaehler' <= normal_alarm_zaehler
                   /\ normal_alarm_sperre_bis' <= normal_alarm_sperre_bis ]_vars

C6_Zeuge ==
    /\ GueltigerTick /\ ausgabe.kritisch /\ ausgabe.soll /\ ausgabe.erzwungen
    /\ letzter_tick = "ueber" /\ ~ausgabe.krit_vorher

\* C7: on the tick where the critical alarm clears no normal-tier alarm fires,
\* whether or not a normal threshold is still exceeded.
C7_KeinFeuerBeiEntwarnung ==
    Entwarnung => (~ausgabe.feuer /\ ~ausgabe.piep /\ ~ausgabe.winken)

C7_Zeuge == Entwarnung /\ ausgabe.soll /\ ~ausgabe.feuer /\ feuer_zeit >= 0

\* C8: on the tick where the critical alarm clears while a normal threshold is
\* still exceeded, the continuous buzzer is stopped, kritischer_alarm_aktiv is
\* false and the cooldown is now + NORMAL_ALARM_SPERRE_SEK at the end of the tick.
C8_EntwarnungSperre ==
    (Entwarnung /\ ausgabe.soll)
        => /\ ausgabe.gestoppt
           /\ ~summer_ist_dauerhaft_an
           /\ summer_duty = SUMMER_DUTY_AUS
           /\ ~kritischer_alarm_aktiv
           /\ normal_alarm_sperre_bis = uhr + NORMAL_ALARM_SPERRE_SEK

C8_Zeuge ==
    /\ Entwarnung /\ ausgabe.soll /\ ausgabe.gestoppt
    /\ normal_alarm_sperre_bis = uhr + NORMAL_ALARM_SPERRE_SEK

\* C9 as stated: on the tick where the critical alarm clears while a normal
\* threshold is still exceeded, the strike counter is 0 at the end of the tick.
C9_Original == (Entwarnung /\ ausgabe.soll) => normal_alarm_zaehler = 0

\* C9 amended: on that tick the clearing step resets the strike counter to 0 and
\* the normal tier then counts the exceeding reading, so the counter is 1 at the
\* end of the tick, and nothing fires.
C9_ZaehlerEins ==
    (Entwarnung /\ ausgabe.soll) => (normal_alarm_zaehler = 1 /\ ~ausgabe.feuer)

C9_Zeuge == Entwarnung /\ ausgabe.soll /\ normal_alarm_zaehler = 1

\* C10: on the tick where the critical alarm clears and no normal threshold is
\* exceeded, the cooldown is not armed: cooldown and strike counter are both 0.
C10_KeineSperre ==
    (Entwarnung /\ ~ausgabe.soll)
        => (normal_alarm_sperre_bis = 0 /\ normal_alarm_zaehler = 0)

C10_Zeuge ==
    /\ Entwarnung /\ ~ausgabe.soll /\ ausgabe.gestoppt
    /\ normal_alarm_sperre_bis = 0 /\ normal_alarm_zaehler = 0


\* --------------------------------------------------- claims C11 .. C20
\* the reading carries a sentinel of sensorik.py
Sentinel(messung) == messung[1] = TEMP_UNGUELTIG \/ messung[2] = FEUCHTE_UNGUELTIG

\* no value of the reading lies above its threshold, the CO2 not above the critical one
Unauffaellig(messung) ==
    /\ ~Sentinel(messung)
    /\ messung[1] <= aktuelle_temp_schwelle
    /\ messung[2] <= aktuelle_feuchte_schwelle
    /\ messung[3] <= aktuelle_co2_schwelle
    /\ messung[4] <= aktuelle_voc_schwelle
    /\ messung[3] <= aktuelle_co2_kritisch_schwelle

\* the step handed nothing to the buzzer, the servo or the display
KeineAusgabe ==
    /\ ~ausgabe'.erzwungen /\ ~ausgabe'.gestoppt /\ ~ausgabe'.piep /\ ~ausgabe'.ton
    /\ ~ausgabe'.winken /\ ~ausgabe'.wecken /\ ~ausgabe'.anzeige

\* C11: under any thresholds, a tick whose valid reading lies at or below every
\* threshold (CO2 at or below the critical one too) forces no buzzer, gives no pulse
\* and no wave, and leaves the strike counter at 0 and the critical alarm inactive
\* at its end; a reading exactly at a threshold does not count as exceeding.
C11_UnterSchwelle ==
    [][ \A messung \in Messungen :
          (ausgabe'.op = "tick" /\ Unauffaellig(messung) /\ Tick(messung, "ok"))
          => /\ ~ausgabe'.erzwungen /\ ~ausgabe'.piep /\ ~ausgabe'.ton /\ ~ausgabe'.winken
             /\ ~ausgabe'.feuer
             /\ normal_alarm_zaehler' = 0
             /\ ~kritischer_alarm_aktiv' ]_vars

C11_Zeuge ==
    /\ GueltigerTick /\ ~ausgabe.soll /\ ~ausgabe.kritisch
    /\ normal_alarm_zaehler = 0
    /\ aktuelle_co2_schwelle = 3000 /\ aktuelle_temp_schwelle = 305

\* C12: while muted, a tick that meets the firing condition of the normal tier
\* (critical inactive, exceeding, second strike, cooldown over) gives no audible
\* pulse, but the wave and the display wake are issued, the cooldown is re-armed to
\* now + NORMAL_ALARM_SPERRE_SEK and the counter is 0.
C12_StummFeuer ==
    [][ ( /\ ist_stummgeschaltet
          /\ ~kritischer_alarm_aktiv
          /\ normal_alarm_zaehler + 1 >= NORMAL_ALARM_AUSLOESE_ZAEHLER
          /\ uhr > normal_alarm_sperre_bis
          /\ ausgabe'.op = "tick" /\ ausgabe'.gueltig
          /\ ausgabe'.soll /\ ~ausgabe'.kritisch )
        => /\ ausgabe'.feuer /\ ~ausgabe'.ton
           /\ ausgabe'.winken /\ ausgabe'.wecken
           /\ normal_alarm_sperre_bis' = uhr + NORMAL_ALARM_SPERRE_SEK
           /\ normal_alarm_zaehler' = 0 ]_vars

C12_Zeuge ==
    /\ GueltigerTick /\ ausgabe.feuer /\ ist_stummgeschaltet
    /\ ~ausgabe.ton /\ ausgabe.winken /\ ausgabe.wecken

\* C13: the command MUTE with status ON sets the mute flag, and when stumm_schalten
\* returns the continuous buzzer is off (duty SUMMER_DUTY_AUS, not marked as on),
\* whatever the state was, a forced critical buzzer included.
C13_StummStoppt ==
    [][ /\ \A m \in Nachrichten :
             ( /\ ausgabe'.op = "befehl"
               /\ m.daten.form = "objekt"
               /\ m.daten.command = "MUTE" /\ m.daten.status = "ON"
               /\ BefehlEmpfangen(m) )
             => (ist_stummgeschaltet' /\ befehl_pc' = "stumm_220")
        /\ (befehl_pc = "stumm_220" /\ ist_stummgeschaltet /\ befehl_pc' # "stumm_220")
             => /\ ist_stummgeschaltet'
                /\ ~summer_ist_dauerhaft_an'
                /\ summer_duty' = SUMMER_DUTY_AUS
                /\ befehl_pc' = "main_134" ]_vars

C13_Zeuge ==
    /\ ausgabe.op = "befehl" /\ befehl_pc = "main_134"
    /\ ausgabe.war_an /\ ausgabe.gestoppt
    /\ ist_stummgeschaltet /\ ~summer_ist_dauerhaft_an /\ summer_duty = SUMMER_DUTY_AUS

\* C14: a tick whose temperature or humidity is a sentinel changes no alarm
\* variable, no threshold and no buzzer state, hands nothing to buzzer, servo or
\* display and makes no publish call.
C14_UngueltigerTick ==
    [][ \A messung \in Messungen :
          (ausgabe'.op = "tick" /\ Sentinel(messung) /\ Tick(messung, "ok"))
          => /\ UNCHANGED <<alarm_vars, schwellen_vars, aktor_vars>>
             /\ UNCHANGED <<mqtt_verbunden, mqtt_client>>
             /\ KeineAusgabe
             /\ ~ausgabe'.sendeversuch /\ ~ausgabe'.gesendet ]_vars

C14_Zeuge ==
    /\ ausgabe.op = "tick" /\ ~ausgabe.gueltig
    /\ kritischer_alarm_aktiv /\ summer_ist_dauerhaft_an /\ mqtt_verbunden


\* C15: a message on the threshold topic is applied field by field: a field that is
\* a number in its range replaces its threshold (temperature and humidity with the
\* value, CO2 and VOC with its integer part), a field that is absent, no number or
\* out of range leaves its threshold as it was, whatever the other fields are; the
\* critical CO2 threshold is never changed.
C15_FeldFuerFeld ==
    [][ \A m \in Nachrichten :
          ( /\ ausgabe'.op = "schwelle"
            /\ m.topic = MQTT_SCHWELLE_TOPIC /\ m.daten.form = "objekt"
            /\ SchwelleEmpfangen(m) )
          => LET t == m.daten.schwelle_temp
                 h == m.daten.schwelle_hum
                 c == m.daten.schwelle_CO2
                 v == m.daten.schwelle_VOC
             IN /\ aktuelle_temp_schwelle' =
                     IF t.typ = "zahl" THEN t.wert ELSE aktuelle_temp_schwelle
                /\ aktuelle_feuchte_schwelle' =
                     IF h.typ = "zahl" /\ h.wert >= 0 /\ h.wert <= 1000
                     THEN h.wert ELSE aktuelle_feuchte_schwelle
                /\ aktuelle_co2_schwelle' =
                     IF c.typ = "zahl" /\ c.wert > 0
                     THEN c.wert \div 10 ELSE aktuelle_co2_schwelle
                /\ aktuelle_voc_schwelle' =
                     IF v.typ = "zahl" /\ v.wert >= 0
                     THEN v.wert \div 10 ELSE aktuelle_voc_schwelle
                /\ UNCHANGED aktuelle_co2_kritisch_schwelle ]_vars

\* a valid CO2 field was stored next to three rejected fields
C15_Zeuge ==
    /\ ausgabe.op = "schwelle"
    /\ aktuelle_co2_schwelle = 0
    /\ aktuelle_temp_schwelle = 305 /\ aktuelle_feuchte_schwelle = 1000
    /\ aktuelle_voc_schwelle = 1050

\* C16: after any sequence of threshold messages the stored humidity threshold lies
\* in [0, 100], the CO2 threshold is > 0 and the VOC threshold is >= 0.
C16_Bereiche ==
    /\ aktuelle_feuchte_schwelle >= 0 /\ aktuelle_feuchte_schwelle <= 1000
    /\ aktuelle_co2_schwelle > 0
    /\ aktuelle_voc_schwelle >= 0

\* C17: at the end of every valid tick on which no threshold is exceeded and the
\* critical alarm is not active, the strike counter and the cooldown are 0; so an
\* exceeding tick that follows a non-exceeding valid tick is a first strike: it
\* leaves the counter at 1 and fires nothing.
C17_Ruecksetzen ==
    [][ /\ ( /\ ausgabe'.op = "tick" /\ ausgabe'.gueltig
             /\ ~ausgabe'.soll /\ ~kritischer_alarm_aktiv' )
           => (normal_alarm_zaehler' = 0 /\ normal_alarm_sperre_bis' = 0)
        /\ ( /\ letzter_tick = "unter"
             /\ ausgabe'.op = "tick" /\ ausgabe'.gueltig
             /\ ausgabe'.soll /\ ~ausgabe'.kritisch /\ ~ausgabe'.krit_vorher )
           => ( /\ normal_alarm_zaehler' = 1
                /\ ~ausgabe'.feuer /\ ~ausgabe'.piep /\ ~ausgabe'.winken ) ]_vars

\* a firing, then a quiet tick that took the cooldown away again
C17_Zeuge ==
    /\ GueltigerTick /\ ~ausgabe.soll /\ ~kritischer_alarm_aktiv
    /\ feuer_zeit >= 0 /\ uhr = feuer_zeit
    /\ normal_alarm_zaehler = 0 /\ normal_alarm_sperre_bis = 0

\* the handler is through and has touched neither the alarm state, the thresholds
\* nor the buzzer
Unberuehrt ==
    /\ UNCHANGED <<alarm_vars, schwellen_vars, aktor_vars>>
    /\ befehl_pc' = "bereit"
    /\ KeineAusgabe

\* C18: a payload that is no JSON, or no JSON object, on the control or on the
\* threshold topic changes no alarm variable, no threshold and no buzzer state, and
\* the handler returns normally.
C18_KaputteNutzlast ==
    [][ \A m \in Nachrichten :
          ( /\ ausgabe'.op = "kaputt"
            /\ m.daten.form = "kaputt"
            /\ (SchwelleEmpfangen(m) \/ BefehlEmpfangen(m)) )
          => Unberuehrt ]_vars

C18_Zeuge ==
    /\ ausgabe.op = "kaputt" /\ befehl_pc = "bereit"
    /\ aktuelle_co2_schwelle = 3000 /\ kritischer_alarm_aktiv /\ summer_ist_dauerhaft_an

\* the message is none the handler acts on
Unbekannt(m) ==
    \/ m.topic \notin {MQTT_SCHWELLE_TOPIC, EMPFANGS_TOPIC}
    \/ /\ m.topic = EMPFANGS_TOPIC /\ m.daten.form = "objekt"
       /\ \/ m.daten.command \notin {"MUTE", "FLAG", "BUZZER"}
          \/ m.daten.command = "FLAG" /\ m.daten.action # "WAVE"
          \/ m.daten.command = "BUZZER" /\ m.daten.status \notin {"ON", "OFF"}

\* C19: a control message with an unknown command, FLAG without the action WAVE,
\* BUZZER with a status other than ON or OFF, or a message on any other topic
\* leaves alarm state, thresholds and buzzer unchanged and moves nothing.
C19_UnbekannterBefehl ==
    [][ \A m \in Nachrichten :
          ( /\ ausgabe'.op \in {"befehl", "andere"}
            /\ Unbekannt(m)
            /\ (BefehlEmpfangen(m) \/ AndereNachricht(m)) )
          => Unberuehrt ]_vars

C19_Zeuge ==
    /\ ausgabe.op = "andere" /\ befehl_pc = "bereit"
    /\ ist_stummgeschaltet /\ kritischer_alarm_aktiv /\ summer_ist_dauerhaft_an


\* C20: the program attempts an MQTT connect only in a loop pass whose link check
\* (wlan_ist_verbunden, line 313) reported the WLAN connected, and at start-up only
\* after wlan_verbinden succeeded; in a pass that saw the link down there is none.
C20_MqttNurMitWlan ==
    [][ ausgabe'.mqtt_versuch
        => \/ schleife_pc = "main_294" /\ wlan_ok
           \/ schleife_pc = "main_326" /\ beobachtet = "oben" /\ wlan_ok ]_vars

C20_Zeuge ==
    /\ ausgabe.mqtt_versuch /\ schleife_pc = "main_329"
    /\ beobachtet = "oben" /\ mqtt_ok /\ mqtt_verbunden


\* --------------------------------------------------- claims C21 .. C30
\* C21: in a loop pass that saw the WLAN down the MQTT side is disconnected
\* (mqtt_ok false, mqtt_verbunden false) before wlan_verbinden is called at line
\* 320, and both stay false until a step that makes an MQTT connect attempt.
C21_ErstTrennen ==
    [][ /\ schleife_pc' = "main_320" => (~mqtt_ok' /\ ~mqtt_verbunden')
        /\ (~mqtt_verbunden /\ mqtt_verbunden') => ausgabe'.mqtt_versuch
        /\ (~mqtt_ok /\ mqtt_ok') => ausgabe'.mqtt_versuch ]_vars

\* the pass that saw the link fall has taken a standing connection down
C21_Zeuge ==
    /\ schleife_pc = "main_320" /\ beobachtet = "unten" /\ ausgabe.op = "netz"
    /\ wlan_ok /\ ~mqtt_ok /\ ~mqtt_verbunden /\ ~mqtt_client


\* C22: a publish (mqtt_senden) or a poll (mqtt_nachrichten_pruefen) that fails,
\* with whatever exception, leaves the MQTT side disconnected: mqtt_verbunden is
\* false and the client is dropped; after a failed poll mqtt_ok is false as well, so
\* that the next loop pass reconnects.
C22_FehlerTrennt ==
    [][ /\ (ausgabe'.op = "tick" /\ ausgabe'.sendeversuch /\ ~ausgabe'.gesendet)
           => (~mqtt_verbunden' /\ ~mqtt_client')
        /\ (ausgabe'.op = "abruf" /\ ausgabe'.ausnahme)
           => (~mqtt_verbunden' /\ ~mqtt_client' /\ ~mqtt_ok') ]_vars


\* C23: whenever the WLAN link is up and the MQTT side is disconnected, the main
\* loop eventually makes an MQTT connect attempt (or the link falls again before
\* it gets there); also when wlan_verbinden returned False and the link came up
\* afterwards on its own.
C23_Selbstheilung ==
    (wlan_aktiv /\ wlan_link /\ ~mqtt_ok /\ ~mqtt_verbunden)
        ~> (ausgabe.mqtt_versuch \/ ~wlan_link)


\* C24: no exception of a sensor, display, actuator, network or messaging call
\* ends a loop: the main connectivity loop is never left, also not when
\* wlan_ist_verbunden or wlan_verbinden raises in the loop body.
C24_SchleifeLaeuft == schleife_pc # "beendet"

\* C29: on the tick on which the normal alarm fires, the cooldown is re-armed and
\* the counter reset, also when backlight_einschalten raises.
C29_SperreTrotzFehler ==
    [][ (ausgabe'.op = "tick" /\ ausgabe'.gueltig /\ ausgabe'.feuer)
        => /\ normal_alarm_sperre_bis' = uhr + NORMAL_ALARM_SPERRE_SEK
           /\ normal_alarm_zaehler' = 0 ]_vars


\* C25: the tick and the command handler are serialized: the timer callback never
\* runs while mqtt_befehl_empfangen is between two of its statements.
C25_Serialisiert == ausgabe.op = "tick" => befehl_pc = "bereit"

\* C30: with the tick free to run between two statements of the handler, a
\* continuous buzzer that the critical tier switched on goes with
\* kritischer_alarm_aktiv true. In a muted device only the critical tier can have
\* switched it on (summer_starten without erzwingen stops it), so once the handler
\* is through, muted and sounding implies the flag.
C30_KritischHaeltFlag ==
    (befehl_pc = "bereit" /\ ist_stummgeschaltet /\ summer_ist_dauerhaft_an)
        => kritischer_alarm_aktiv

\* C26: in every published payload CO2_Status is 2 exactly when co2 is above the
\* critical threshold, otherwise 1 exactly when co2 is above the CO2 threshold,
\* otherwise 0, and the temperature, humidity and VOC status are 1 exactly when
\* the value is strictly above its threshold and 0 otherwise, also when the CO2
\* threshold lies above the critical threshold
C26_Statuswerte ==
    [][ (ausgabe'.op = "tick" /\ ausgabe'.gesendet)
        => \A messung \in Messungen :
             Tick(messung, "ok")
             => /\ ausgabe'.daten.CO2_Status =
                     (IF messung[3] > aktuelle_co2_kritisch_schwelle THEN 2
                      ELSE IF messung[3] > aktuelle_co2_schwelle THEN 1 ELSE 0)
                /\ ausgabe'.daten.Temperatur_Status =
                     (IF messung[1] > aktuelle_temp_schwelle THEN 1 ELSE 0)
                /\ ausgabe'.daten.Luftfeuchtigkeit_Status =
                     (IF messung[2] > aktuelle_feuchte_schwelle THEN 1 ELSE 0)
                /\ ausgabe'.daten.VOC_Status =
                     (IF messung[4] > aktuelle_voc_schwelle THEN 1 ELSE 0) ]_vars

\* A payload with CO2_Status 2 was published while the CO2 threshold lies above
\* the critical threshold and no normal alarm condition holds
C26_Zeuge ==
    /\ ausgabe.op = "tick"
    /\ ausgabe.gesendet
    /\ ausgabe.daten.CO2_Status = 2
    /\ ~ausgabe.soll
    /\ aktuelle_co2_schwelle > aktuelle_co2_kritisch_schwelle

\* C28: a tick publishes a status message only if the messaging link is
\* connected at the publish step and never while it is disconnected; the alarm
\* evaluation and the actuator driving of a valid tick are those of AlarmLogik
\* whatever the state of the network and messaging links
C28_SendenNurVerbunden ==
    [][ (ausgabe'.op = "tick" /\ ausgabe'.gueltig)
        => /\ ausgabe'.sendeversuch => (mqtt_verbunden /\ mqtt_client)
           /\ ausgabe'.gesendet => (mqtt_verbunden /\ mqtt_client)
           /\ ~mqtt_verbunden => ausgabe'.daten = KeineDaten
           /\ ausgabe'.anzeige
           /\ LET r == AlarmLogik(Zustand, ausgabe'.kritisch, ausgabe'.soll, uhr)
              IN /\ kritischer_alarm_aktiv' = r.z.krit
                 /\ normal_alarm_sperre_bis' = r.z.sperre
                 /\ normal_alarm_zaehler' = r.z.zaehler
                 /\ ist_stummgeschaltet' = r.z.a.stumm
                 /\ summer_ist_dauerhaft_an' = r.z.a.dauerhaft
                 /\ summer_duty' = r.z.a.duty
                 /\ ausgabe'.erzwungen = r.k.erzwungen
                 /\ ausgabe'.feuer = r.n.feuer ]_vars

\* A tick with a critical reading forced the buzzer on and published nothing
\* while the network link and the messaging link were down
C28_Zeuge ==
    /\ ausgabe.op = "tick"
    /\ ausgabe.gueltig
    /\ ausgabe.erzwungen
    /\ summer_ist_dauerhaft_an
    /\ ~ausgabe.sendeversuch
    /\ ~mqtt_verbunden
    /\ ~wlan_link

\* C27: a call of wlan_verbinden always terminates; while the link does not come
\* up the wait loop ends once more than WLAN_VERBINDUNGS_TIMEOUT_SEK seconds have
\* elapsed, and the call then returns False with the interface disconnected and
\* deactivated; it returns True only when the link is connected
C27_EndetMitTimeout ==
    /\ (wlan_pc # "aussen") ~> (wlan_pc = "aussen")
    /\ [][ /\ (wlan_pc = "wifi_74" /\ ~wlan_link /\ ausgabe'.op = "wlan"
              /\ TimeoutUeberschritten(uhr, start_zeit))
             => (wlan_pc' = "aussen" /\ ~wlan_rueckgabe')
           /\ (wlan_pc = "wifi_74" /\ wlan_pc' = "aussen" /\ ~wlan_rueckgabe')
             => /\ uhr - start_zeit > WLAN_VERBINDUNGS_TIMEOUT_SEK
                /\ ~wlan_aktiv' /\ ~wlan_link'
           /\ (wlan_pc # "aussen" /\ wlan_pc' = "aussen" /\ wlan_rueckgabe')
             => (wlan_aktiv' /\ wlan_link') ]_vars

\* A call has returned False after its wait loop, with the interface switched off
C27_Zeuge ==
    /\ wlan_pc = "aussen"
    /\ ausgabe.op = "wlan"
    /\ ~wlan_rueckgabe
    /\ ~wlan_aktiv
    /\ uhr > WLAN_VERBINDUNGS_TIMEOUT_SEK

\* C31: at the end of every valid tick kritischer_alarm_aktiv equals
\* (co2 > critical threshold), whatever commands were processed before it
C31_FlagGleichKritisch == GueltigerTick => (kritischer_alarm_aktiv = ausgabe.kritisch)

\* A tick with critical CO2 set the flag again after a MUTE ON had cleared it
C31_Zeuge ==
    /\ GueltigerTick
    /\ ausgabe.kritisch
    /\ ~ausgabe.krit_vorher
    /\ ist_stummgeschaltet
    /\ kritischer_alarm_aktiv

\* C32: whenever kritischer_alarm_aktiv is true between two ticks, the normal
\* strike counter is 0 and the normal cooldown timestamp is 0
C32_KritischNullt ==
    kritischer_alarm_aktiv => (normal_alarm_zaehler = 0 /\ normal_alarm_sperre_bis = 0)

\* The critical tier was entered inside the cooldown window of a normal firing
C32_Zeuge ==
    /\ GueltigerTick
    /\ ausgabe.kritisch
    /\ ~ausgabe.krit_vorher
    /\ kritischer_alarm_aktiv
    /\ feuer_zeit >= 0
    /\ uhr < feuer_zeit + NORMAL_ALARM_SPERRE_SEK
    /\ normal_alarm_sperre_bis = 0

\* C33: a MUTE ON or BUZZER OFF command ends with kritischer_alarm_aktiv false,
\* also when the critical alarm was active; a valid tick with critical CO2 that
\* finds the flag false is a new entry: flag set, strike counter and cooldown 0,
\* display wake issued, normal tier not evaluated
C33_NeuerEintritt ==
    [][ /\ (befehl_pc = "stumm_220" /\ ist_stummgeschaltet /\ befehl_pc' # befehl_pc)
             => befehl_pc' = "main_134"
        /\ (befehl_pc \in {"main_134", "main_145"} /\ befehl_pc' # befehl_pc)
             => (befehl_pc' = "bereit" /\ ~kritischer_alarm_aktiv')
        /\ (ausgabe'.op = "tick" /\ ausgabe'.gueltig /\ ausgabe'.kritisch
            /\ ~kritischer_alarm_aktiv)
             => /\ kritischer_alarm_aktiv'
                /\ normal_alarm_zaehler' = 0
                /\ normal_alarm_sperre_bis' = 0
                /\ ausgabe'.wecken
                /\ ausgabe'.erzwungen
                /\ ~ausgabe'.ausgewertet
                /\ ~ausgabe'.feuer ]_vars

\* A MUTE ON command has just cleared the flag of an active critical alarm
C33_Zeuge ==
    /\ ausgabe.op = "befehl"
    /\ ausgabe.krit_vorher
    /\ befehl_pc = "bereit"
    /\ ist_stummgeschaltet
    /\ ~kritischer_alarm_aktiv

\* C34: mqtt_ok becomes or stays true in a connect attempt only when the broker
\* connect and both subscriptions have succeeded; after an attempt in which a
\* subscription failed mqtt_ok is false and the connection is torn down
C34_ErstNachAbos ==
    [][ /\ (~mqtt_ok /\ mqtt_ok') => ausgabe'.mqtt_versuch
        /\ (ausgabe'.mqtt_versuch /\ mqtt_ok')
             => (ausgabe'.abos = 2 /\ mqtt_verbunden' /\ mqtt_client')
        /\ (ausgabe'.mqtt_versuch /\ ausgabe'.abos \in {0, 1})
             => (~mqtt_ok' /\ ~mqtt_verbunden' /\ ~mqtt_client') ]_vars

\* The subscription to the threshold topic failed after the one to the control
\* topic had succeeded
C34_Zeuge ==
    /\ ausgabe.mqtt_versuch
    /\ ausgabe.abos = 1
    /\ ~mqtt_ok
    /\ ~mqtt_verbunden
    /\ ~mqtt_client

\* C35: a MUTE command sets the mute flag to true exactly when its status is
\* "ON"; with status "OFF", any other status or none it sets the flag to false,
\* and the handler then leaves the buzzer and kritischer_alarm_aktiv unchanged
C35_StummNurBeiOn ==
    [][ /\ \A m \in Nachrichten :
             ( /\ ausgabe'.op = "befehl"
               /\ m.daten.form = "objekt"
               /\ m.daten.command = "MUTE"
               /\ BefehlEmpfangen(m) )
             => /\ ist_stummgeschaltet' = (m.daten.status = "ON")
                /\ befehl_pc' = "stumm_220"
                /\ UNCHANGED <<summer_ist_dauerhaft_an, summer_duty, alarm_vars>>
        /\ (befehl_pc = "stumm_220" /\ ~ist_stummgeschaltet /\ befehl_pc' # befehl_pc)
             => /\ befehl_pc' = "bereit"
                /\ UNCHANGED <<aktor_vars, alarm_vars>> ]_vars

\* A MUTE command without status ON has ended while the critical alarm was
\* sounding: not muted, buzzer still on, flag still set
C35_Zeuge ==
    /\ ausgabe.op = "befehl"
    /\ ausgabe.war_an
    /\ befehl_pc = "bereit"
    /\ ~ist_stummgeschaltet
    /\ summer_ist_dauerhaft_an
    /\ kritischer_alarm_aktiv

\* C36: while the device is muted, a BUZZER ON command leaves the continuous
\* buzzer off, also when it was sounding because of an active critical alarm,
\* and changes neither the mute flag nor the alarm variables
C36_StummKeinSummer ==
    [][ \A m \in Nachrichten :
          ( /\ ausgabe'.op = "befehl"
            /\ ist_stummgeschaltet
            /\ m.daten.form = "objekt"
            /\ m.daten.command = "BUZZER" /\ m.daten.status = "ON"
            /\ BefehlEmpfangen(m) )
          => /\ ~summer_ist_dauerhaft_an'
             /\ summer_duty' = SUMMER_DUTY_AUS
             /\ ist_stummgeschaltet'
             /\ befehl_pc' = "bereit"
             /\ UNCHANGED alarm_vars ]_vars

\* BUZZER ON arrived while the device was muted and the critical alarm was
\* sounding: the buzzer is off afterwards
C36_Zeuge ==
    /\ ausgabe.op = "befehl"
    /\ ausgabe.war_an
    /\ befehl_pc = "bereit"
    /\ ist_stummgeschaltet
    /\ kritischer_alarm_aktiv
    /\ ~summer_ist_dauerhaft_an
    /\ summer_duty = SUMMER_DUTY_AUS

\* C37: the critical CO2 threshold has its start-up value
\* STANDARD_CO2_KRITISCH_SCHWELLE in every reachable state; the configurable CO2
\* threshold is not held at or below it (the witness)
C37_KritischFest == aktuelle_co2_kritisch_schwelle = STANDARD_CO2_KRITISCH_SCHWELLE

\* A threshold message has put the CO2 threshold above the critical threshold
C37_Zeuge ==
    /\ ausgabe.op = "schwelle"
    /\ aktuelle_co2_schwelle > aktuelle_co2_kritisch_schwelle
    /\ aktuelle_co2_kritisch_schwelle = STANDARD_CO2_KRITISCH_SCHWELLE

\* C38: a message on the threshold topic (observed as "schwelle") changes at
\* most the four threshold fields and never the strike counter, the cooldown,
\* kritischer_alarm_aktiv, the mute flag or an actuator, also when it carries a
\* command field; no step of the handler for a message on the control topic
\* (observed as "befehl") changes a threshold, also when the message carries
\* schwelle_* fields; a malformed message and one on another topic change none
C38_Themen ==
    [][ /\ ausgabe'.op = "schwelle"
             => /\ UNCHANGED <<alarm_vars, aktor_vars, befehl_pc>>
                /\ UNCHANGED aktuelle_co2_kritisch_schwelle
                /\ ~ausgabe'.winken /\ ~ausgabe'.piep /\ ~ausgabe'.gestoppt
        /\ ausgabe'.op \in {"befehl", "kaputt", "andere"}
             => UNCHANGED schwellen_vars ]_vars

\* A threshold message that carried the command MUTE with status ON has set the
\* thresholds while the device stayed unmuted and the critical alarm sounding
C38_Zeuge ==
    /\ ausgabe.op = "schwelle"
    /\ ausgabe.command = "MUTE"
    /\ aktuelle_temp_schwelle = 305
    /\ ~ist_stummgeschaltet
    /\ summer_ist_dauerhaft_an
    /\ kritischer_alarm_aktiv

\* C39: under sustained exceedance (every tick valid, a normal threshold
\* exceeded, CO2 never critical, time advancing) every tick with
\* now > normal_alarm_sperre_bis after a firing fires again, so the first such
\* tick does; each firing resets the strike counter and re-arms the cooldown;
\* a further firing follows every firing whose cooldown ends before MaxDauer
C39_FeuertWieder ==
    /\ [][ /\ ( /\ feuer_zeit >= 0
                /\ ausgabe'.op = "tick"
                /\ uhr > normal_alarm_sperre_bis )
              => ausgabe'.feuer
           /\ ( /\ feuer_zeit >= 0
                /\ ausgabe'.op = "tick"
                /\ uhr <= normal_alarm_sperre_bis )
              => ~ausgabe'.feuer
           /\ (ausgabe'.op = "tick" /\ ausgabe'.feuer)
              => /\ normal_alarm_zaehler' = 0
                 /\ normal_alarm_sperre_bis' = uhr + NORMAL_ALARM_SPERRE_SEK ]_vars
    /\ ( /\ ausgabe.op = "zeit"
         /\ feuer_zeit >= 0
         /\ normal_alarm_sperre_bis + SENSOR_LESEINTERVALL_SEK <= MaxDauer )
       ~> (ausgabe.op = "tick" /\ ausgabe.feuer)

\* The third firing in a row: the one before it had a predecessor as well, and
\* every tick in between exceeded
C39_Zeuge ==
    /\ ausgabe.op = "tick"
    /\ ausgabe.feuer
    /\ ausgabe.vorfeuer
    /\ ~ausgabe.unterbrochen
    /\ uhr > 2 * NORMAL_ALARM_SPERRE_SEK
    /\ ausgabe.erreicht > MaxZaehler

====
